---------------------------- MODULE Spec2Model ----------------------------
(***************************************************************************)
(* PixelMagic front end: the four tool pages (background remover, crop,    *)
(* resize, upscale) as event-driven state machines, and the crop tool's    *)
(* geometry engine.                                                        *)
(*                                                                         *)
(* One page is open at a time (each page is its own document with its own  *)
(* script closure); `page` says which.  Every event handler is one action; *)
(* an async handler is one action per stretch between two awaits.          *)
(*                                                                         *)
(* JavaScript numbers are modelled as exact rationals <<n, d>> in lowest   *)
(* terms with d > 0, so the model has no floating-point rounding error.    *)
(***************************************************************************)
EXTENDS Integers, Sequences, FiniteSets, TLC

(***************************************************************************)
(* Exact rational arithmetic.                                              *)
(***************************************************************************)
Abs(n) == IF n < 0 THEN -n ELSE n

RECURSIVE GCD(_, _)
GCD(a, b) == IF b = 0 THEN a ELSE GCD(b, a % b)

Norm(n, d) ==
    IF d = 1 THEN <<n, 1>>
    ELSE LET s == IF d < 0 THEN -1 ELSE 1
             g == GCD(Abs(n), Abs(d))
         IN  <<(s * n) \div g, (s * d) \div g>>

R(n) == <<n, 1>>
Zero == R(0)
RAdd(a, b) ==
    IF a[2] = b[2] THEN Norm(a[1] + b[1], a[2])
    ELSE Norm(a[1] * b[2] + b[1] * a[2], a[2] * b[2])
RSub(a, b) ==
    IF a[2] = b[2] THEN Norm(a[1] - b[1], a[2])
    ELSE Norm(a[1] * b[2] - b[1] * a[2], a[2] * b[2])
RMul(a, b) == Norm(a[1] * b[1], a[2] * b[2])
\* a / b for b # 0
RDiv(a, b) == Norm(a[1] * b[2], a[2] * b[1])
RLt(a, b) == a[1] * b[2] < b[1] * a[2]
RLe(a, b) == a[1] * b[2] <= b[1] * a[2]
RGt(a, b) == RLt(b, a)
RGe(a, b) == RLe(b, a)
RMin(a, b) == IF RLe(a, b) THEN a ELSE b
RMax(a, b) == IF RGe(a, b) THEN a ELSE b
\* the integer below a rational (\div rounds towards minus infinity)
RFloor(a) == a[1] \div a[2]
\* Math.round: the nearest integer, halves rounded up
MathRound(a) == (2 * a[1] + a[2]) \div (2 * a[2])
\* the JavaScript test `a / b > r`: x/0 is +-Infinity and 0/0 is NaN
DivGt(a, b, r) ==
    IF b = Zero THEN RGt(a, Zero) ELSE RGt(RDiv(a, b), r)


(***************************************************************************)
(* Files the user can pick.  A file is named by a string; these operators  *)
(* give what the browser reports for it (File.type, File.size) and the     *)
(* pixel size of the raster it decodes to.                                 *)
(***************************************************************************)
NoFile == "none"
MiB == 1024 * 1024

FileType(f) ==
    CASE f = "icon.png"   -> "image/png"
      [] f = "photo.jpg"  -> "image/jpeg"
      [] f = "wide.webp"  -> "image/webp"
      [] f = "huge.png"   -> "image/png"
      [] f = "edge.png"   -> "image/png"
      [] f = "poster.png" -> "image/png"
      [] f = "wall.jpg"   -> "image/jpeg"
      [] f = "anim.gif"   -> "image/gif"
      [] f = "notes.txt"  -> "text/plain"
      [] f = "big.jpg"    -> "image/jpeg"
      [] OTHER            -> ""

FileSize(f) ==
    CASE f = "big.jpg"    -> 10 * MiB + 1
      [] f = "edge.png"   -> 10 * MiB
      [] f = "huge.png"   -> 9 * MiB
      [] OTHER            -> 2048

\* natural width and height of the decoded image
FileWidth(f) ==
    CASE f = "icon.png"   -> 40
      [] f = "photo.jpg"  -> 200
      [] f = "wide.webp"  -> 3000
      [] f = "huge.png"   -> 20000
      [] f = "edge.png"   -> 400
      [] f = "poster.png" -> 2000
      [] f = "wall.jpg"   -> 1600
      [] OTHER            -> 120

FileHeight(f) ==
    CASE f = "icon.png"   -> 40
      [] f = "photo.jpg"  -> 100
      [] f = "wide.webp"  -> 1000
      [] f = "huge.png"   -> 20000
      [] f = "edge.png"   -> 300
      [] f = "poster.png" -> 1500
      [] f = "wall.jpg"   -> 1200
      [] OTHER            -> 80

ValidFiles == {"icon.png", "photo.jpg", "wide.webp", "huge.png", "edge.png",
               "poster.png", "wall.jpg"}
InvalidFiles == {"anim.gif", "notes.txt", "big.jpg"}
AllFiles == ValidFiles \cup InvalidFiles

(***************************************************************************)
(* utils.js                                                                *)
(***************************************************************************)
validTypes == {"image/jpeg", "image/png", "image/webp"}
maxSize == 10 * MiB

\* validateFile returns false after showing one of two error toasts
validateFileToast(file) ==
    IF FileType(file) \notin validTypes THEN "invalid-type"
    ELSE IF FileSize(file) > maxSize THEN "too-large"
    ELSE "ok"

\* a validateFile that tests the size only
validateFileSizeOnly(file) == FileSize(file) <= maxSize

validateFile(file) == validateFileToast(file) = "ok"

clamp(value, min, max) == RMin(RMax(value, min), max)


(***************************************************************************)
(* crop.js: the geometry engine, as pure operators.  A crop box is a       *)
(* record [x, y, width, height] of rationals in display pixels.  The       *)
(* aspect ratio is a rational; null is modelled as Zero (the code only     *)
(* ever tests `if (aspectRatio)`, and null and 0 are both falsy).          *)
(***************************************************************************)
Box(x, y, w, h) == [x |-> x, y |-> y, width |-> w, height |-> h]
ZeroBox == Box(Zero, Zero, Zero, Zero)
minSize == 30
Handles == {"tl", "tr", "bl", "br", "tm", "bm", "ml", "mr"}
CornerHandles == {"tl", "tr", "bl", "br"}
\* activeHandle.includes('l'), activeHandle.includes('t')
IncludesL(h) == h \in {"tl", "bl", "ml"}
IncludesT(h) == h \in {"tl", "tr", "tm"}

\* recalculateScale: the scale for a rendered width and a stored image width
ScaleFor(dw, iw) ==
    IF RGt(dw, Zero) /\ iw > 0 THEN RDiv(R(iw), dw) ELSE R(1)

\* an initCropBox that takes 80% of each side whatever the ratio
InitBoxIgnoringRatio(dw, dh, ar) ==
    LET bw == RMul(dw, Norm(4, 5))
        bh == RMul(dh, Norm(4, 5))
    IN  Box(RDiv(RSub(dw, bw), R(2)), RDiv(RSub(dh, bh), R(2)), bw, bh)

\* initCropBox, after its recalculateScale
InitBox(dw, dh, ar) ==
    LET eighty == Norm(4, 5)
        useH == ar # Zero /\ DivGt(dw, dh, ar)
        bw0 == IF ar = Zero THEN RMul(dw, eighty)
               ELSE IF useH THEN RMul(RMul(dh, eighty), ar)
               ELSE RMul(dw, eighty)
        bh0 == IF ar = Zero THEN RMul(dh, eighty)
               ELSE IF useH THEN RMul(dh, eighty)
               ELSE RDiv(RMul(dw, eighty), ar)
        bw == RMin(bw0, dw)
        bh == RMin(bh0, dh)
    IN  Box(RDiv(RSub(dw, bw), R(2)), RDiv(RSub(dh, bh), R(2)), bw, bh)

\* a move that drags the right and bottom edges with the pointer
MoveBoxStretching(cs, sc, dw, dh, dx, dy) ==
    [cs EXCEPT !.width = RAdd(sc.width, R(dx)), !.height = RAdd(sc.height, R(dy))]

\* moveCropBox(dx, dy)
MoveBox(cs, sc, dw, dh, dx, dy) ==
    LET newX == clamp(RAdd(sc.x, R(dx)), Zero, RSub(dw, cs.width))
        newY == clamp(RAdd(sc.y, R(dy)), Zero, RSub(dh, cs.height))
    IN  [cs EXCEPT !.x = newX, !.y = newY]

\* resizeCropBox, step 0: the handle's raw delta
ResizeRaw(sc, h, dx, dy) ==
    LET rx == R(dx)
        ry == R(dy)
    IN  CASE h = "tl" -> Box(RAdd(sc.x, rx), RAdd(sc.y, ry),
                             RSub(sc.width, rx), RSub(sc.height, ry))
          [] h = "tr" -> Box(sc.x, RAdd(sc.y, ry),
                             RAdd(sc.width, rx), RSub(sc.height, ry))
          [] h = "bl" -> Box(RAdd(sc.x, rx), sc.y,
                             RSub(sc.width, rx), RAdd(sc.height, ry))
          [] h = "br" -> Box(sc.x, sc.y,
                             RAdd(sc.width, rx), RAdd(sc.height, ry))
          [] h = "tm" -> Box(sc.x, RAdd(sc.y, ry), sc.width, RSub(sc.height, ry))
          [] h = "bm" -> Box(sc.x, sc.y, sc.width, RAdd(sc.height, ry))
          [] h = "ml" -> Box(RAdd(sc.x, rx), sc.y, RSub(sc.width, rx), sc.height)
          [] h = "mr" -> Box(sc.x, sc.y, RAdd(sc.width, rx), sc.height)
          [] OTHER    -> sc

\* a minimum size that raises the sides and leaves the position where the
\* pointer put it
ResizeMinUnpinned(b, sc, h) ==
    Box(b.x, b.y, RMax(b.width, R(minSize)), RMax(b.height, R(minSize)))

\* resizeCropBox, step 1: enforce minimum size, pinning the opposite edge
ResizeMin(b, sc, h) ==
    LET lowW == RLt(b.width, R(minSize))
        lowH == RLt(b.height, R(minSize))
    IN  Box(IF lowW /\ IncludesL(h)
              THEN RSub(RAdd(sc.x, sc.width), R(minSize)) ELSE b.x,
            IF lowH /\ IncludesT(h)
              THEN RSub(RAdd(sc.y, sc.height), R(minSize)) ELSE b.y,
            IF lowW THEN R(minSize) ELSE b.width,
            IF lowH THEN R(minSize) ELSE b.height)

\* a resizeCropBox without its step 2
ResizeAspectSkipped(b, sc, h, ar) == b

\* resizeCropBox, step 2: enforce the aspect ratio on corner handles
ResizeAspect(b, sc, h, ar) ==
    IF ar # Zero /\ h \in CornerHandles
    THEN IF DivGt(b.width, b.height, ar)
         THEN LET nw == RMul(b.height, ar)
              IN  [b EXCEPT !.width = nw,
                            !.x = IF IncludesL(h)
                                  THEN RSub(RAdd(sc.x, sc.width), nw) ELSE b.x]
         ELSE LET nh == RDiv(b.width, ar)
              IN  [b EXCEPT !.height = nh,
                            !.y = IF IncludesT(h)
                                  THEN RSub(RAdd(sc.y, sc.height), nh) ELSE b.y]
    ELSE b

\* resizeCropBox, step 3: the bounds check (four tests in order)
ResizeBounds(b, dw, dh) ==
    LET w1 == IF RLt(b.x, Zero) THEN RAdd(b.width, b.x) ELSE b.width
        x1 == IF RLt(b.x, Zero) THEN Zero ELSE b.x
        h1 == IF RLt(b.y, Zero) THEN RAdd(b.height, b.y) ELSE b.height
        y1 == IF RLt(b.y, Zero) THEN Zero ELSE b.y
        w2 == IF RGt(RAdd(x1, w1), dw) THEN RSub(dw, x1) ELSE w1
        h2 == IF RGt(RAdd(y1, h1), dh) THEN RSub(dh, y1) ELSE h1
    IN  Box(x1, y1, w2, h2)

\* resizeCropBox, step 4: the final minimum size check
ResizeFinalMin(b) ==
    [b EXCEPT !.width = RMax(b.width, R(minSize)),
              !.height = RMax(b.height, R(minSize))]

\* resizeCropBox(dx, dy)
ResizeBox(sc, h, ar, dw, dh, dx, dy) ==
    ResizeFinalMin(
        ResizeBounds(
            ResizeAspect(ResizeMin(ResizeRaw(sc, h, dx, dy), sc, h), sc, h, ar),
            dw, dh))

\* a constrainCropBox that always derives the height from the width
ConstrainBoxFromWidth(cs, ar, dw, dh) ==
    IF ar = Zero THEN cs
    ELSE LET h == RDiv(cs.width, ar)
             x1 == IF RGt(RAdd(cs.x, cs.width), dw) THEN RSub(dw, cs.width) ELSE cs.x
             y1 == IF RGt(RAdd(cs.y, h), dh) THEN RSub(dh, h) ELSE cs.y
         IN  Box(RMax(Zero, x1), RMax(Zero, y1), cs.width, h)

\* constrainCropBox
ConstrainBox(cs, ar, dw, dh) ==
    IF ar = Zero THEN cs
    ELSE LET wide == DivGt(cs.width, cs.height, ar)
             w == IF wide THEN RMul(cs.height, ar) ELSE cs.width
             h == IF wide THEN cs.height ELSE RDiv(cs.width, ar)
             x1 == IF RGt(RAdd(cs.x, w), dw) THEN RSub(dw, w) ELSE cs.x
             y1 == IF RGt(RAdd(cs.y, h), dh) THEN RSub(dh, h) ELSE cs.y
         IN  Box(RMax(Zero, x1), RMax(Zero, y1), w, h)


(***************************************************************************)
(* Form fields.  A field's text is an integer literal, empty, or text that *)
(* parseInt cannot read.                                                   *)
(***************************************************************************)
FieldInt(n) == [t |-> "int", v |-> n]
EmptyField == [t |-> "empty", v |-> 0]
JunkField == [t |-> "nan", v |-> 0]
EmptyFields == [x |-> EmptyField, y |-> EmptyField, w |-> EmptyField, h |-> EmptyField]
\* `parseInt(value) || dflt`: NaN and 0 are falsy
ParseIntOr(f, dflt) == IF f.t = "int" /\ f.v # 0 THEN f.v ELSE dflt

\* updateCropBox: a display coordinate as the real-pixel integer of its input
ToSource(p, sc) == MathRound(RMul(p, sc))

\* a reading of an input that takes its real pixels for display pixels
ToDisplayUnscaled(f, dflt, sc) == R(ParseIntOr(f, dflt))

\* handleManualInput: the display coordinate for an input's text
ToDisplay(f, dflt, sc) == RDiv(R(ParseIntOr(f, dflt)), sc)

\* updateCropBox: the four inputs, in real pixels
FieldsOf(cs, sc) ==
    [x |-> FieldInt(ToSource(cs.x, sc)),
     y |-> FieldInt(ToSource(cs.y, sc)),
     w |-> FieldInt(ToSource(cs.width, sc)),
     h |-> FieldInt(ToSource(cs.height, sc))]

\* handleManualInput: the crop box for the four fields (before constrainCropBox)
ManualBox(fl, sc, dw, dh) ==
    LET x == ToDisplay(fl.x, 0, sc)
        y == ToDisplay(fl.y, 0, sc)
        w == ToDisplay(fl.w, 100, sc)
        h == ToDisplay(fl.h, 100, sc)
    IN  Box(clamp(x, Zero, RSub(dw, R(30))),
            clamp(y, Zero, RSub(dh, R(30))),
            clamp(w, R(30), RSub(dw, x)),
            clamp(h, R(30), RSub(dh, y)))

IntMin(a, b) == IF a <= b THEN a ELSE b
IntMax(a, b) == IF a >= b THEN a ELSE b
Rect(x, y, w, h) == [x |-> x, y |-> y, width |-> w, height |-> h]
NoRect == Rect(0, 0, 0, 0)

\* a preview of the rounded rectangle, not clamped to the image
PreviewRectUnclamped(cs, sc, iw, ih) ==
    Rect(MathRound(RMul(cs.x, sc)), MathRound(RMul(cs.y, sc)),
         MathRound(RMul(cs.width, sc)), MathRound(RMul(cs.height, sc)))

\* updatePreview: the source rectangle drawn (NoRect: it returned early)
PreviewRect(cs, sc, iw, ih) ==
    LET realX == MathRound(RMul(cs.x, sc))
        realY == MathRound(RMul(cs.y, sc))
        realW == MathRound(RMul(cs.width, sc))
        realH == MathRound(RMul(cs.height, sc))
        clampedX == IntMax(0, IntMin(realX, iw - 1))
        clampedY == IntMax(0, IntMin(realY, ih - 1))
        clampedW == IntMin(realW, iw - clampedX)
        clampedH == IntMin(realH, ih - clampedY)
    IN  IF clampedW <= 0 \/ clampedH <= 0 THEN NoRect
        ELSE Rect(clampedX, clampedY, clampedW, clampedH)

\* applyCrop: the rectangle sent to /crop
CropRect(cs, sc, iw, ih) ==
    LET x0 == IntMax(0, MathRound(RMul(cs.x, sc)))
        y0 == IntMax(0, MathRound(RMul(cs.y, sc)))
        w0 == IntMax(1, MathRound(RMul(cs.width, sc)))
        h0 == IntMax(1, MathRound(RMul(cs.height, sc)))
        x1 == IntMin(x0, iw - 1)
        y1 == IntMin(y0, ih - 1)
    IN  Rect(x1, y1, IntMin(w0, iw - x1), IntMin(h0, ih - y1))


(***************************************************************************)
(* State.                                                                  *)
(*                                                                         *)
(* The four tool scripts declare the same names (currentFile,              *)
(* uploadedFilename, processedFilename, the three buttons); since one page *)
(* is open at a time, one variable stands for the open page's binding.     *)
(* processBtnDisabled is the trigger button of the page: processBtn,       *)
(* applyBtn, resizeBtn or upscaleBtn.  An asset (a server-side filename)   *)
(* is a positive integer, 0 is null.                                       *)
(***************************************************************************)
VARIABLES
    page,                \* "bg" | "crop" | "resize" | "upscale" | "home"
    currentFile,         \* a file name, or NoFile
    uploadedFilename,    \* asset, 0 = null
    processedFilename,   \* asset, 0 = null (not declared by the crop tool)
    resetBtnDisabled,
    processBtnDisabled,
    downloadBtnDisabled,
    toast,               \* the last toast shown: [type, msg]
    lastDownload,        \* asset of the last download started, 0 = none
    dimsPending,         \* getImageDimensions promises not yet settled
    readers,             \* FileReader reads not yet delivered
    requests,            \* fetch calls in flight
    nSelects,            \* files selected so far
    nReq,                \* requests issued so far; also the last asset named
    nSteps,              \* user configuration steps so far
    \* crop.js
    imageWidth, imageHeight, displayWidth, displayHeight, scale,
    cropState, aspectRatio,
    isDragging, isResizing, activeHandle, startX, startY, startCrop,
    imgSrc,              \* cropImage.src: [kind, file, asset, w, h]
    imgState,            \* "none" | "loading" | "complete"
    rendered,            \* natural <<w, h>> of the raster cropImage paints
    onloadKind,          \* the handler in cropImage.onload
    frames,              \* requestAnimationFrame callbacks queued
    containerHidden,     \* cropContainer has class hidden
    fields,              \* cropX, cropY, cropW, cropH values
    preview,             \* source rectangle last drawn into previewImage
    viewport,            \* layout: the width available to cropImage, in pixels
    resizePending,       \* the debounced window-resize timer is armed
    inputPending,        \* the debounced input timer is armed
    changePending,       \* a field was edited and not yet committed
    \* bgremove.js, resize.js, upscale.js
    originalWidth, originalHeight,
    view,                \* result pane: [loadingHidden, resultEmptyHidden,
                         \*   comparisonHidden, resultImg, resultAsset, afterAsset]
    bg,                  \* [softness, feather, customBackground, reading]
    rs,                  \* [width, height, aspectLocked, resizeMode, format, quality, timer]
    up,                  \* [selectedScale, off, temps]: off = the scale cards
                         \*   disabled, temps = the preloads in flight
    lastCrop,            \* history: the latest successful /crop response, and
                         \*   whether nothing but cropping has happened since
    assetSize,           \* history: asset |-> <<width, height>> of the uploads
                         \*   and crop results the server holds
    prevScale            \* history: selectedScale as the last dimension read
                         \*   of the upscale tool found it, 0 = none yet

sessionVars == <<currentFile, uploadedFilename, processedFilename>>
buttonVars == <<resetBtnDisabled, processBtnDisabled, downloadBtnDisabled>>
asyncVars == <<dimsPending, readers, requests>>
countVars == <<nSelects, nReq, nSteps>>
imageVars == <<imageWidth, imageHeight>>
scaleVars == <<displayWidth, displayHeight, scale>>
gestureVars == <<isDragging, isResizing, activeHandle, startX, startY, startCrop>>
imgVars == <<imgSrc, imgState, rendered, onloadKind>>
domVars == <<fields, preview>>
timerVars == <<resizePending, inputPending, changePending>>
\* every crop.js variable but the image shown (the other pages show one too)
cropRest == <<imageVars, scaleVars, cropState, aspectRatio, gestureVars, imgState,
              rendered, onloadKind, frames, containerHidden, domVars, viewport,
              timerVars>>
cropVars == <<imageVars, scaleVars, cropState, aspectRatio, gestureVars, imgVars,
              frames, containerHidden, domVars, viewport, timerVars>>
toolVars == <<originalWidth, originalHeight, view, bg, rs, up>>
histVars == <<lastCrop, assetSize, prevScale>>
vars == <<page, sessionVars, buttonVars, toast, lastDownload, asyncVars,
          countVars, cropVars, toolVars, histVars>>

Toast(type, msg) == [type |-> type, msg |-> msg]
NoToast == Toast("none", "")

NoSrc == [kind |-> "none", file |-> NoFile, asset |-> 0, w |-> 0, h |-> 0]
FileSrc(f) == [kind |-> "file", file |-> f, asset |-> 0,
               w |-> FileWidth(f), h |-> FileHeight(f)]
AssetSrc(a, w, h) == [kind |-> "asset", file |-> NoFile, asset |-> a, w |-> w, h |-> h]

\* a fetch in flight; rect carries the numeric form fields of the call
Request(id, kind, file, filename, rect, opt) ==
    [id |-> id, kind |-> kind, file |-> file, filename |-> filename,
     rect |-> rect, opt |-> opt, stale |-> FALSE]
NoOpt == [mode |-> "", format |-> ""]

Pages == {"bg", "crop", "resize", "upscale", "home"}
Viewports == {100, 200}
InitialViewport == 200

DefaultView == [loadingHidden |-> TRUE, resultEmptyHidden |-> FALSE,
                comparisonHidden |-> TRUE, resultImg |-> "none",
                resultAsset |-> 0, afterAsset |-> 0]
DefaultBg == [softness |-> 0, feather |-> 0, customBackground |-> "null",
              reading |-> FALSE]
\* resize defaults whose mode is the one the user last picked
DefaultRsStretch == [width |-> FieldInt(800), height |-> FieldInt(600),
                     aspectLocked |-> TRUE, resizeMode |-> "stretch", format |-> "png",
                     quality |-> 90, timer |-> "none"]

DefaultRs == [width |-> FieldInt(800), height |-> FieldInt(600), aspectLocked |-> TRUE,
              resizeMode |-> "fit", format |-> "png", quality |-> 90,
              timer |-> "none"]
DefaultUp == [selectedScale |-> 4, off |-> {}, temps |-> {}]
NoAssets == [a \in {} |-> <<0, 0>>]
NoCrop == [filename |-> 0, width |-> 0, height |-> 0, clean |-> FALSE]

\* the state after the scripts ran, in a window that leaves width v to an image
InitAt(v) ==
    /\ page \in Pages
    /\ currentFile = NoFile
    /\ uploadedFilename = 0
    /\ processedFilename = 0
    /\ resetBtnDisabled = TRUE
    /\ processBtnDisabled = TRUE
    /\ downloadBtnDisabled = TRUE
    /\ toast = NoToast
    /\ lastDownload = 0
    /\ dimsPending = {}
    /\ readers = {}
    /\ requests = {}
    /\ nSelects = 0
    /\ nReq = 0
    /\ nSteps = 0
    /\ imageWidth = 0
    /\ imageHeight = 0
    /\ displayWidth = Zero
    /\ displayHeight = Zero
    /\ scale = R(1)
    /\ cropState = ZeroBox
    /\ aspectRatio = Zero
    /\ isDragging = FALSE
    /\ isResizing = FALSE
    /\ activeHandle = "null"
    /\ startX = 0
    /\ startY = 0
    /\ startCrop = ZeroBox
    /\ imgSrc = NoSrc
    /\ imgState = "none"
    /\ rendered = <<0, 0>>
    /\ onloadKind = "none"
    /\ frames = <<>>
    /\ containerHidden = TRUE
    /\ fields = EmptyFields
    /\ preview = NoRect
    /\ viewport = v
    /\ resizePending = FALSE
    /\ inputPending = FALSE
    /\ changePending = FALSE
    /\ originalWidth = 0
    /\ originalHeight = 0
    /\ view = DefaultView
    /\ bg = DefaultBg
    /\ rs = DefaultRs
    /\ up = DefaultUp
    /\ lastCrop = NoCrop
    /\ assetSize = NoAssets
    /\ prevScale = 0

Init == InitAt(InitialViewport)


(***************************************************************************)
(* crop.js: the page's handlers.                                           *)
(***************************************************************************)
\* cropImage.getBoundingClientRect(): the painted raster, shrunk in proportion
\* when it is wider than the viewport (max-width: 100%, height: auto)
RectWidth == R(IntMin(rendered[1], viewport))
RectHeight ==
    IF rendered[1] = 0 THEN Zero
    ELSE Norm(rendered[2] * IntMin(rendered[1], viewport), rendered[1])

\* `cropImage.src && cropImage.complete`
ImageReady == imgSrc.kind # "none" /\ imgState = "complete"

\* updateCropBox(); updatePreview() for the box cs under scale sc
Redraw(cs, sc, iw, ih) ==
    /\ fields' = FieldsOf(cs, sc)
    /\ preview' = IF ~ImageReady \/ PreviewRect(cs, sc, iw, ih) = NoRect
                  THEN preview
                  ELSE PreviewRect(cs, sc, iw, ih)

\* handleFileSelect up to `await getImageDimensions(file)`
CropHandleFileSelect(file) ==
    /\ page = "crop"
    /\ IF ~validateFile(file)
       THEN /\ toast' = Toast("error", validateFileToast(file))
            /\ UNCHANGED <<currentFile, dimsPending, nSelects>>
       ELSE /\ currentFile' = file
            /\ dimsPending' = dimsPending \cup {[id |-> nSelects + 1, file |-> file]}
            /\ nSelects' = nSelects + 1
            /\ UNCHANGED toast
    /\ UNCHANGED <<page, histVars, uploadedFilename, processedFilename, buttonVars, lastDownload,
                   readers, requests, nReq, nSteps, cropVars, toolVars>>

\* handleFileSelect from the dimensions to `await uploadFile(file)`
CropDimsDone(p) ==
    /\ page = "crop"
    /\ p \in dimsPending
    /\ dimsPending' = dimsPending \ {p}
    /\ imageWidth' = FileWidth(p.file)
    /\ imageHeight' = FileHeight(p.file)
    /\ readers' = readers \cup {p}
    /\ nReq' = nReq + 1
    /\ requests' = requests \cup
                     {Request(nReq + 1, "upload", p.file, 0, NoRect, NoOpt)}
    /\ lastCrop' = [lastCrop EXCEPT !.clean = FALSE]
    /\ UNCHANGED <<assetSize, prevScale>>
    /\ UNCHANGED <<page, sessionVars, buttonVars, toast, lastDownload, nSelects, nSteps,
                   scaleVars, cropState, aspectRatio, gestureVars, imgVars, frames,
                   containerHidden, domVars, viewport, timerVars, toolVars>>

\* reader.onload: cropImage.src = the data URL; cropImage.onload = ...
CropReaderLoad(p) ==
    /\ page = "crop"
    /\ p \in readers
    /\ readers' = readers \ {p}
    /\ imgSrc' = FileSrc(p.file)
    /\ imgState' = "loading"
    /\ onloadKind' = "select"
    /\ UNCHANGED <<page, histVars, sessionVars, buttonVars, toast, lastDownload, dimsPending,
                   requests, countVars, imageVars, scaleVars, cropState, aspectRatio,
                   gestureVars, rendered, frames, containerHidden, domVars, viewport,
                   timerVars, toolVars>>

\* the image's load event: cropImage.onload queues the animation frames
CropImageLoad ==
    /\ page = "crop"
    /\ imgState = "loading"
    /\ imgState' = "complete"
    /\ rendered' = <<imgSrc.w, imgSrc.h>>
    /\ frames' = IF onloadKind = "none" THEN frames ELSE Append(frames, onloadKind)
    /\ UNCHANGED <<page, histVars, sessionVars, buttonVars, toast, lastDownload, asyncVars,
                   countVars, imageVars, scaleVars, cropState, aspectRatio, gestureVars,
                   imgSrc, onloadKind, containerHidden, domVars, viewport, timerVars,
                   toolVars>>

\* the inner requestAnimationFrame callback: recalculateScale(); initCropBox();
\* and, after a file selection, show the container
CropFrame ==
    /\ page = "crop"
    /\ frames # <<>>
    /\ frames' = Tail(frames)
    /\ LET dw == RectWidth
           dh == RectHeight
           sc == ScaleFor(dw, imageWidth)
           cs == InitBox(dw, dh, aspectRatio)
       IN  /\ displayWidth' = dw
           /\ displayHeight' = dh
           /\ scale' = sc
           /\ cropState' = cs
           /\ Redraw(cs, sc, imageWidth, imageHeight)
    /\ containerHidden' = IF Head(frames) = "select" THEN FALSE ELSE containerHidden
    /\ UNCHANGED <<page, histVars, sessionVars, buttonVars, toast, lastDownload, asyncVars,
                   countVars, imageVars, aspectRatio, gestureVars, imgVars, viewport,
                   timerVars, toolVars>>

\* handleFileSelect after `await uploadFile(file)` resolved
CropUploadDone(r) ==
    /\ page = "crop"
    /\ r \in requests /\ r.kind = "upload"
    /\ requests' = requests \ {r}
    /\ uploadedFilename' = r.id
    /\ resetBtnDisabled' = FALSE
    /\ processBtnDisabled' = FALSE
    /\ toast' = Toast("success", "Image loaded successfully!")
    /\ lastCrop' = [lastCrop EXCEPT !.clean = FALSE]
    /\ assetSize' = assetSize @@ (r.id :> <<FileWidth(r.file), FileHeight(r.file)>>)
    /\ UNCHANGED prevScale
    /\ UNCHANGED <<page, currentFile, processedFilename, downloadBtnDisabled,
                   lastDownload, dimsPending, readers, countVars, cropVars, toolVars>>

\* handleFileSelect after `await uploadFile(file)` threw
CropUploadFail(r) ==
    /\ page = "crop"
    /\ r \in requests /\ r.kind = "upload"
    /\ requests' = requests \ {r}
    /\ toast' = Toast("error", "Upload failed")
    /\ UNCHANGED <<page, histVars, sessionVars, buttonVars, lastDownload, dimsPending, readers,
                   countVars, cropVars, toolVars>>

\* no pointer gesture is in progress: a click is delivered after its mouseup
Idle == ~isDragging /\ ~isResizing

\* click on an aspect button
CropAspectClick(ratio) ==
    /\ page = "crop"
    /\ Idle
    /\ aspectRatio' = ratio
    /\ nSteps' = nSteps + 1
    /\ IF RGt(cropState.width, Zero)
       THEN LET cs == ConstrainBox(cropState, ratio, displayWidth, displayHeight)
            IN  /\ cropState' = cs
                /\ Redraw(cs, scale, imageWidth, imageHeight)
       ELSE UNCHANGED <<cropState, domVars>>
    /\ UNCHANGED <<page, histVars, sessionVars, buttonVars, toast, lastDownload, asyncVars,
                   nSelects, nReq, imageVars, scaleVars, gestureVars, imgVars, frames,
                   containerHidden, viewport, timerVars, toolVars>>

\* handleManualInput
HandleManualInput ==
    LET mb == ManualBox(fields, scale, displayWidth, displayHeight)
        cs == IF aspectRatio # Zero
              THEN ConstrainBox(mb, aspectRatio, displayWidth, displayHeight)
              ELSE mb
    IN  /\ cropState' = cs
        /\ Redraw(cs, scale, imageWidth, imageHeight)

\* the user edits one of the four inputs: `input` events arm the debounce
CropType(name, value) ==
    /\ page = "crop"
    /\ Idle
    /\ name \in {"x", "y", "w", "h"}
    /\ fields' = [fields EXCEPT ![name] = value]
    /\ inputPending' = TRUE
    /\ changePending' = TRUE
    /\ nSteps' = nSteps + 1
    /\ UNCHANGED <<page, histVars, sessionVars, buttonVars, toast, lastDownload, asyncVars,
                   nSelects, nReq, imageVars, scaleVars, cropState, aspectRatio,
                   gestureVars, imgVars, frames, containerHidden, preview, viewport,
                   resizePending, toolVars>>

\* the `change` event of the edited input
CropInputChange ==
    /\ page = "crop"
    /\ changePending
    /\ changePending' = FALSE
    /\ HandleManualInput
    /\ UNCHANGED <<page, histVars, sessionVars, buttonVars, toast, lastDownload, asyncVars,
                   countVars, imageVars, scaleVars, aspectRatio, gestureVars, imgVars,
                   frames, containerHidden, viewport, resizePending, inputPending, toolVars>>

\* the debounced `input` handler, 300 ms after the last keystroke
CropInputTimer ==
    /\ page = "crop"
    /\ inputPending
    /\ inputPending' = FALSE
    /\ HandleManualInput
    /\ UNCHANGED <<page, histVars, sessionVars, buttonVars, toast, lastDownload, asyncVars,
                   countVars, imageVars, scaleVars, aspectRatio, gestureVars, imgVars,
                   frames, containerHidden, viewport, resizePending, changePending, toolVars>>


\* handleMouseDown on the crop box (target "box") or on one of its handles
CropMouseDown(target, cx, cy) ==
    /\ page = "crop"
    /\ ~containerHidden
    /\ displayWidth' = RectWidth
    /\ displayHeight' = RectHeight
    /\ scale' = ScaleFor(RectWidth, imageWidth)
    /\ IF target \in Handles
       THEN /\ isResizing' = TRUE
            /\ activeHandle' = target
            /\ UNCHANGED isDragging
       ELSE /\ isDragging' = TRUE
            /\ UNCHANGED <<isResizing, activeHandle>>
    /\ startX' = cx
    /\ startY' = cy
    /\ startCrop' = cropState
    /\ nSteps' = nSteps + 1
    /\ UNCHANGED <<page, histVars, sessionVars, buttonVars, toast, lastDownload, asyncVars,
                   nSelects, nReq, imageVars, cropState, aspectRatio, imgVars, frames,
                   containerHidden, domVars, viewport, timerVars, toolVars>>

\* handleMouseMove with the pointer at (cx, cy)
CropMouseMove(cx, cy) ==
    /\ page = "crop"
    /\ IF ~isDragging /\ ~isResizing
       THEN UNCHANGED <<cropState, domVars>>
       ELSE LET dx == cx - startX
                dy == cy - startY
                cs == IF isDragging
                      THEN MoveBox(cropState, startCrop, displayWidth,
                                   displayHeight, dx, dy)
                      ELSE ResizeBox(startCrop, activeHandle, aspectRatio,
                                     displayWidth, displayHeight, dx, dy)
            IN  /\ cropState' = cs
                /\ Redraw(cs, scale, imageWidth, imageHeight)
    /\ UNCHANGED <<page, histVars, sessionVars, buttonVars, toast, lastDownload, asyncVars,
                   countVars, imageVars, scaleVars, aspectRatio, gestureVars, imgVars,
                   frames, containerHidden, viewport, timerVars, toolVars>>

\* handleMouseUp
CropMouseUp ==
    /\ page = "crop"
    /\ preview' = IF (isDragging \/ isResizing) /\ ImageReady
                     /\ PreviewRect(cropState, scale, imageWidth, imageHeight) # NoRect
                  THEN PreviewRect(cropState, scale, imageWidth, imageHeight)
                  ELSE preview
    /\ isDragging' = FALSE
    /\ isResizing' = FALSE
    /\ activeHandle' = "null"
    /\ UNCHANGED <<page, histVars, sessionVars, buttonVars, toast, lastDownload, asyncVars,
                   countVars, imageVars, scaleVars, cropState, aspectRatio, startX,
                   startY, startCrop, imgVars, frames, containerHidden, fields, viewport,
                   timerVars, toolVars>>

\* the window is resized, leaving width v to the image; the debounce timer is armed
CropWindowResize(v) ==
    /\ page = "crop"
    /\ v # viewport
    /\ viewport' = v
    /\ resizePending' = TRUE
    /\ nSteps' = nSteps + 1
    /\ UNCHANGED <<page, histVars, sessionVars, buttonVars, toast, lastDownload, asyncVars,
                   nSelects, nReq, imageVars, scaleVars, cropState, aspectRatio, gestureVars,
                   imgVars, frames, containerHidden, domVars, inputPending,
                   changePending, toolVars>>

\* the debounced resize handler, 200 ms after the last resize event
CropResizeTimer ==
    /\ page = "crop"
    /\ resizePending
    /\ resizePending' = FALSE
    /\ IF ImageReady
       THEN /\ displayWidth' = RectWidth
            /\ displayHeight' = RectHeight
            /\ scale' = ScaleFor(RectWidth, imageWidth)
       ELSE UNCHANGED scaleVars
    /\ UNCHANGED <<page, histVars, sessionVars, buttonVars, toast, lastDownload, asyncVars,
                   countVars, imageVars, cropState, aspectRatio, gestureVars, imgVars,
                   frames, containerHidden, domVars, viewport, inputPending, changePending,
                   toolVars>>

\* applyCrop up to `await cropImageAPI(uploadedFilename, crop)`
CropApply ==
    /\ page = "crop"
    /\ Idle
    /\ ~processBtnDisabled
    /\ IF uploadedFilename = 0
       THEN /\ toast' = Toast("warning", "Please upload an image first")
            /\ UNCHANGED <<requests, nReq>>
       ELSE /\ toast' = Toast("info", "Cropping image...")
            /\ nReq' = nReq + 1
            /\ requests' = requests \cup
                 {Request(nReq + 1, "crop", NoFile, uploadedFilename,
                          CropRect(cropState, scale, imageWidth, imageHeight), NoOpt)}
    /\ UNCHANGED <<page, histVars, sessionVars, buttonVars, lastDownload, dimsPending, readers,
                   nSelects, nSteps, cropVars, toolVars>>

\* the /crop endpoint answers a request for a non-empty rectangle with the
\* new asset and its size
CropServerAccepts(r) == r.rect.width >= 1 /\ r.rect.height >= 1
CropResult(r) == [filename |-> r.id, width |-> r.rect.width, height |-> r.rect.height]

\* an applyCrop that keeps the asset it cropped as the source
UnchainedSource(r) == r.filename

\* applyCrop: `uploadedFilename = result.filename`
ChainedSource(r) == CropResult(r).filename

\* applyCrop after `await cropImageAPI(...)` resolved
CropDone(r) ==
    /\ page = "crop"
    /\ r \in requests /\ r.kind = "crop"
    /\ CropServerAccepts(r)
    /\ requests' = requests \ {r}
    /\ uploadedFilename' = ChainedSource(r)
    /\ imageWidth' = CropResult(r).width
    /\ imageHeight' = CropResult(r).height
    /\ imgSrc' = AssetSrc(CropResult(r).filename, CropResult(r).width,
                          CropResult(r).height)
    /\ imgState' = "loading"
    /\ onloadKind' = "crop"
    /\ downloadBtnDisabled' = FALSE
    /\ toast' = Toast("success", "Image cropped successfully!")
    /\ lastCrop' = [filename |-> CropResult(r).filename, width |-> CropResult(r).width,
                    height |-> CropResult(r).height, clean |-> TRUE]
    /\ assetSize' = assetSize @@ (CropResult(r).filename :>
                                    <<CropResult(r).width, CropResult(r).height>>)
    /\ UNCHANGED prevScale
    /\ UNCHANGED <<page, currentFile, processedFilename, resetBtnDisabled,
                   processBtnDisabled, lastDownload, dimsPending, readers, countVars,
                   scaleVars, cropState, aspectRatio, gestureVars, rendered, frames,
                   containerHidden, domVars, viewport, timerVars, toolVars>>

\* applyCrop after `await cropImageAPI(...)` threw
CropFail(r) ==
    /\ page = "crop"
    /\ r \in requests /\ r.kind = "crop"
    /\ requests' = requests \ {r}
    /\ toast' = Toast("error", "Crop failed")
    /\ UNCHANGED <<page, histVars, sessionVars, buttonVars, lastDownload, dimsPending, readers,
                   countVars, cropVars, toolVars>>

\* download
CropDownload ==
    /\ page = "crop"
    /\ Idle
    /\ ~downloadBtnDisabled
    /\ IF uploadedFilename = 0
       THEN /\ toast' = Toast("warning", "No image to download")
            /\ UNCHANGED lastDownload
       ELSE /\ lastDownload' = uploadedFilename
            /\ toast' = Toast("success", "Download started!")
    /\ nSteps' = nSteps + 1
    /\ UNCHANGED <<page, histVars, sessionVars, buttonVars, asyncVars, nSelects, nReq, cropVars,
                   toolVars>>

\* every fetch in flight now predates a reset
MarkStale(rs0) == {[r EXCEPT !.stale = TRUE] : r \in rs0}

\* reset
CropReset ==
    /\ page = "crop"
    /\ Idle
    /\ ~resetBtnDisabled
    /\ currentFile' = NoFile
    /\ uploadedFilename' = 0
    /\ imgSrc' = NoSrc
    /\ imgState' = "none"
    /\ rendered' = <<0, 0>>
    /\ containerHidden' = TRUE
    /\ preview' = NoRect
    /\ cropState' = ZeroBox
    /\ imageWidth' = 0
    /\ imageHeight' = 0
    /\ displayWidth' = Zero
    /\ displayHeight' = Zero
    /\ scale' = R(1)
    /\ resetBtnDisabled' = TRUE
    /\ processBtnDisabled' = TRUE
    /\ downloadBtnDisabled' = TRUE
    /\ aspectRatio' = Zero
    /\ fields' = EmptyFields
    /\ requests' = MarkStale(requests)
    /\ lastCrop' = [lastCrop EXCEPT !.clean = FALSE]
    /\ nSteps' = nSteps + 1
    /\ UNCHANGED <<assetSize, prevScale>>
    /\ UNCHANGED <<page, processedFilename, toast, lastDownload, dimsPending, readers,
                   nSelects, nReq, gestureVars, onloadKind, frames, viewport, timerVars,
                   toolVars>>



\* a download that takes any reference for a result
HasResultAlways(filename) == TRUE

\* download: `if (!processedFilename)` is not taken
HasResult(filename) == filename # 0

(***************************************************************************)
(* bgremove.js (src/unnamed/part_001, first module).                       *)
(* imgSrc stands for originalImage.src on this page.                       *)
(***************************************************************************)
\* handleFileSelect up to `await uploadFile(file)`
BgHandleFileSelect(file) ==
    /\ page = "bg"
    /\ IF ~validateFile(file)
       THEN /\ toast' = Toast("error", validateFileToast(file))
            /\ UNCHANGED <<currentFile, readers, requests, nSelects, nReq>>
       ELSE /\ currentFile' = file
            /\ nSelects' = nSelects + 1
            /\ readers' = readers \cup {[id |-> nSelects + 1, file |-> file]}
            /\ toast' = Toast("info", "Uploading image...")
            /\ nReq' = nReq + 1
            /\ requests' = requests \cup
                             {Request(nReq + 1, "upload", file, 0, NoRect, NoOpt)}
    /\ UNCHANGED <<page, histVars, uploadedFilename, processedFilename, buttonVars, lastDownload,
                   dimsPending, nSteps, cropVars, toolVars>>

\* reader.onload: show the original
BgReaderLoad(p) ==
    /\ page = "bg"
    /\ p \in readers
    /\ readers' = readers \ {p}
    /\ imgSrc' = FileSrc(p.file)
    /\ UNCHANGED <<page, histVars, sessionVars, buttonVars, toast, lastDownload, dimsPending,
                   requests, countVars, cropRest, toolVars>>

\* handleFileSelect after `await uploadFile(file)` resolved
BgUploadDone(r) ==
    /\ page = "bg"
    /\ r \in requests /\ r.kind = "upload"
    /\ requests' = requests \ {r}
    /\ uploadedFilename' = r.id
    /\ processBtnDisabled' = FALSE
    /\ resetBtnDisabled' = FALSE
    /\ toast' = Toast("success", "Image uploaded successfully!")
    /\ assetSize' = assetSize @@ (r.id :> <<FileWidth(r.file), FileHeight(r.file)>>)
    /\ UNCHANGED <<page, lastCrop, prevScale, currentFile, processedFilename, downloadBtnDisabled,
                   lastDownload, dimsPending, readers, countVars, cropVars, toolVars>>

\* handleFileSelect after `await uploadFile(file)` threw
BgUploadFail(r) ==
    /\ page = "bg"
    /\ r \in requests /\ r.kind = "upload"
    /\ requests' = requests \ {r}
    /\ toast' = Toast("error", "Upload failed")
    /\ UNCHANGED <<page, histVars, sessionVars, buttonVars, lastDownload, dimsPending, readers,
                   countVars, cropVars, toolVars>>

\* a processImage whose `finally` leaves the button as it is
BgFinallyLeavesDisabled == TRUE

\* processImage: `finally { processBtn.disabled = false; }`
BgFinallyDisabled == FALSE

\* processImage up to `await removeBackground(uploadedFilename, options)`
BgProcess ==
    /\ page = "bg"
    /\ ~processBtnDisabled
    /\ IF uploadedFilename = 0
       THEN /\ toast' = Toast("warning", "Please upload an image first")
            /\ UNCHANGED <<view, processBtnDisabled, requests, nReq>>
       ELSE /\ view' = [view EXCEPT !.loadingHidden = FALSE,
                                    !.resultEmptyHidden = TRUE]
            /\ processBtnDisabled' = TRUE
            /\ nReq' = nReq + 1
            /\ requests' = requests \cup
                 {Request(nReq + 1, "remove-bg", NoFile, uploadedFilename,
                          Rect(bg.softness, bg.feather, 0, 0), NoOpt)}
            /\ UNCHANGED toast
    /\ UNCHANGED <<page, histVars, sessionVars, resetBtnDisabled, downloadBtnDisabled,
                   lastDownload, dimsPending, readers, nSelects, nSteps, cropVars,
                   originalWidth, originalHeight, bg, rs, up>>

\* processImage after the await resolved, through `finally`
BgProcessDone(r) ==
    /\ page = "bg"
    /\ r \in requests /\ r.kind = "remove-bg"
    /\ requests' = requests \ {r}
    /\ processedFilename' = r.id
    /\ view' = [view EXCEPT !.resultImg = "loading", !.resultAsset = r.id]
    /\ toast' = Toast("success", "Background removed successfully!")
    /\ processBtnDisabled' = BgFinallyDisabled
    /\ UNCHANGED <<page, histVars, currentFile, uploadedFilename, resetBtnDisabled,
                   downloadBtnDisabled, lastDownload, dimsPending, readers, countVars,
                   cropVars, originalWidth, originalHeight, bg, rs, up>>

\* processImage after the await threw, through `finally`
BgProcessFail(r) ==
    /\ page = "bg"
    /\ r \in requests /\ r.kind = "remove-bg"
    /\ requests' = requests \ {r}
    /\ toast' = Toast("error", "Processing failed")
    /\ view' = [view EXCEPT !.loadingHidden = TRUE, !.resultEmptyHidden = FALSE]
    /\ processBtnDisabled' = BgFinallyDisabled
    /\ UNCHANGED <<page, histVars, sessionVars, resetBtnDisabled, downloadBtnDisabled,
                   lastDownload, dimsPending, readers, countVars, cropVars,
                   originalWidth, originalHeight, bg, rs, up>>

\* resultImage.onload
BgResultLoad ==
    /\ page = "bg"
    /\ view.resultImg = "loading"
    /\ view' = [view EXCEPT !.resultImg = "loaded", !.loadingHidden = TRUE]
    /\ downloadBtnDisabled' = FALSE
    /\ UNCHANGED <<page, histVars, sessionVars, resetBtnDisabled, processBtnDisabled, toast,
                   lastDownload, asyncVars, countVars, cropVars, originalWidth,
                   originalHeight, bg, rs, up>>

\* the result image fails to load: resultImage has no error handler
BgResultError ==
    /\ page = "bg"
    /\ view.resultImg = "loading"
    /\ view' = [view EXCEPT !.resultImg = "broken"]
    /\ UNCHANGED <<page, histVars, sessionVars, buttonVars, toast, lastDownload, asyncVars,
                   countVars, cropVars, originalWidth, originalHeight, bg, rs, up>>

\* the softness or feather slider is moved (only its label changes)
BgSlider(name, v) ==
    /\ page = "bg"
    /\ name \in {"softness", "feather"}
    /\ bg' = [bg EXCEPT ![name] = v]
    /\ nSteps' = nSteps + 1
    /\ UNCHANGED <<page, histVars, sessionVars, buttonVars, toast, lastDownload, asyncVars,
                   nSelects, nReq, cropVars, originalWidth, originalHeight, view, rs,
                   up>>

\* applyBackgroundColor ("color"), clearBackground ("null"), or
\* handleBackgroundImage up to its reader.onload ("image")
BgBackground(kind) ==
    /\ page = "bg"
    /\ kind \in {"color", "null", "image"}
    /\ bg' = IF kind = "image" THEN [bg EXCEPT !.reading = TRUE]
             ELSE [bg EXCEPT !.customBackground = kind]
    /\ nSteps' = nSteps + 1
    /\ UNCHANGED <<page, histVars, sessionVars, buttonVars, toast, lastDownload, asyncVars,
                   nSelects, nReq, cropVars, originalWidth, originalHeight, view, rs,
                   up>>

\* handleBackgroundImage: reader.onload
BgBackgroundLoad ==
    /\ page = "bg"
    /\ bg.reading
    /\ bg' = [bg EXCEPT !.reading = FALSE, !.customBackground = "image"]
    /\ UNCHANGED <<page, histVars, sessionVars, buttonVars, toast, lastDownload, asyncVars,
                   countVars, cropVars, originalWidth, originalHeight, view, rs, up>>

\* download (the composite with a custom background is drawn from resultImage)
BgDownload ==
    /\ page = "bg"
    /\ ~downloadBtnDisabled
    /\ IF ~HasResult(processedFilename)
       THEN /\ toast' = Toast("warning", "No processed image to download")
            /\ UNCHANGED lastDownload
       ELSE /\ lastDownload' = IF bg.customBackground # "null" /\ view.resultAsset # 0
                               THEN view.resultAsset ELSE processedFilename
            /\ toast' = Toast("success", "Download started!")
    /\ nSteps' = nSteps + 1
    /\ UNCHANGED <<page, histVars, sessionVars, buttonVars, asyncVars, nSelects, nReq, cropVars,
                   toolVars>>

\* reset
BgReset ==
    /\ page = "bg"
    /\ ~resetBtnDisabled
    /\ currentFile' = NoFile
    /\ uploadedFilename' = 0
    /\ processedFilename' = 0
    /\ imgSrc' = NoSrc
    /\ view' = [view EXCEPT !.resultImg = "none", !.resultAsset = 0,
                            !.resultEmptyHidden = FALSE]
    /\ bg' = [bg EXCEPT !.softness = 0, !.feather = 0, !.customBackground = "null"]
    /\ processBtnDisabled' = TRUE
    /\ downloadBtnDisabled' = TRUE
    /\ resetBtnDisabled' = TRUE
    /\ requests' = MarkStale(requests)
    /\ nSteps' = nSteps + 1
    /\ UNCHANGED <<page, histVars, toast, lastDownload, dimsPending, readers, nSelects, nReq, cropRest,
                   originalWidth, originalHeight, rs, up>>

(***************************************************************************)
(* resize.js (src/unnamed/part_001, second module).                        *)
(* imgSrc stands for originalImage.src on this page.                       *)
(***************************************************************************)
maxDimension == 10000

\* handleFileSelect up to `await getImageDimensions(file)`
RsHandleFileSelect(file) ==
    /\ page = "resize"
    /\ IF ~validateFile(file)
       THEN /\ toast' = Toast("error", validateFileToast(file))
            /\ UNCHANGED <<currentFile, dimsPending, nSelects>>
       ELSE /\ currentFile' = file
            /\ dimsPending' = dimsPending \cup {[id |-> nSelects + 1, file |-> file]}
            /\ nSelects' = nSelects + 1
            /\ UNCHANGED toast
    /\ UNCHANGED <<page, histVars, uploadedFilename, processedFilename, buttonVars, lastDownload,
                   readers, requests, nReq, nSteps, cropVars, toolVars>>

\* handleFileSelect from the dimensions to `await uploadFile(file)`
RsDimsDone(p) ==
    /\ page = "resize"
    /\ p \in dimsPending
    /\ dimsPending' = dimsPending \ {p}
    /\ originalWidth' = FileWidth(p.file)
    /\ originalHeight' = FileHeight(p.file)
    /\ rs' = [rs EXCEPT !.width = FieldInt(FileWidth(p.file)),
                        !.height = FieldInt(FileHeight(p.file))]
    /\ readers' = readers \cup {p}
    /\ nReq' = nReq + 1
    /\ requests' = requests \cup
                     {Request(nReq + 1, "upload", p.file, 0, NoRect, NoOpt)}
    /\ UNCHANGED <<page, histVars, sessionVars, buttonVars, toast, lastDownload, nSelects, nSteps,
                   cropVars, view, bg, up>>

\* reader.onload: show the original
RsReaderLoad(p) ==
    /\ page = "resize"
    /\ p \in readers
    /\ readers' = readers \ {p}
    /\ imgSrc' = FileSrc(p.file)
    /\ UNCHANGED <<page, histVars, sessionVars, buttonVars, toast, lastDownload, dimsPending,
                   requests, countVars, cropRest, toolVars>>

\* handleFileSelect after `await uploadFile(file)` resolved
RsUploadDone(r) ==
    /\ page = "resize"
    /\ r \in requests /\ r.kind = "upload"
    /\ requests' = requests \ {r}
    /\ uploadedFilename' = r.id
    /\ resetBtnDisabled' = FALSE
    /\ processBtnDisabled' = FALSE
    /\ toast' = Toast("success", "Image loaded successfully!")
    /\ assetSize' = assetSize @@ (r.id :> <<FileWidth(r.file), FileHeight(r.file)>>)
    /\ UNCHANGED <<page, lastCrop, prevScale, currentFile, processedFilename, downloadBtnDisabled,
                   lastDownload, dimsPending, readers, countVars, cropVars, toolVars>>

\* handleFileSelect after `await uploadFile(file)` threw
RsUploadFail(r) ==
    /\ page = "resize"
    /\ r \in requests /\ r.kind = "upload"
    /\ requests' = requests \ {r}
    /\ toast' = Toast("error", "Upload failed")
    /\ UNCHANGED <<page, histVars, sessionVars, buttonVars, lastDownload, dimsPending, readers,
                   countVars, cropVars, toolVars>>

\* a validation that refuses NaN only
RsBadDimensionNaN(f) == f.t # "int"

\* `!width || width < 1` and its like: NaN, zero and negatives are refused
RsBadDimension(f) == f.t # "int" \/ f.v < 1

\* processResize up to `await resizeImage(uploadedFilename, options)`
RsProcess ==
    /\ page = "resize"
    /\ ~processBtnDisabled
    /\ IF uploadedFilename = 0
       THEN /\ toast' = Toast("warning", "Please upload an image first")
            /\ UNCHANGED <<view, processBtnDisabled, requests, nReq>>
       ELSE IF RsBadDimension(rs.width) \/ RsBadDimension(rs.height)
       THEN /\ toast' = Toast("warning", "Please enter valid dimensions")
            /\ UNCHANGED <<view, processBtnDisabled, requests, nReq>>
       ELSE IF rs.width.v > maxDimension \/ rs.height.v > maxDimension
       THEN /\ toast' = Toast("warning", "Maximum dimension is 10000px")
            /\ UNCHANGED <<view, processBtnDisabled, requests, nReq>>
       ELSE /\ view' = [view EXCEPT !.loadingHidden = FALSE,
                                    !.resultEmptyHidden = TRUE]
            /\ processBtnDisabled' = TRUE
            /\ nReq' = nReq + 1
            /\ requests' = requests \cup
                 {Request(nReq + 1, "resize", NoFile, uploadedFilename,
                          Rect(rs.quality, 0, rs.width.v, rs.height.v),
                          [mode |-> rs.resizeMode, format |-> rs.format])}
            /\ UNCHANGED toast
    /\ UNCHANGED <<page, histVars, sessionVars, resetBtnDisabled, downloadBtnDisabled,
                   lastDownload, dimsPending, readers, nSelects, nSteps, cropVars,
                   originalWidth, originalHeight, bg, rs, up>>

\* processResize after the await resolved, through `finally`
RsProcessDone(r) ==
    /\ page = "resize"
    /\ r \in requests /\ r.kind = "resize"
    /\ requests' = requests \ {r}
    /\ processedFilename' = r.id
    /\ view' = [view EXCEPT !.resultImg = "loading", !.resultAsset = r.id]
    /\ toast' = Toast("success", "Image resized successfully!")
    /\ processBtnDisabled' = FALSE
    /\ UNCHANGED <<page, histVars, currentFile, uploadedFilename, resetBtnDisabled,
                   downloadBtnDisabled, lastDownload, dimsPending, readers, countVars,
                   cropVars, originalWidth, originalHeight, bg, rs, up>>

\* processResize after the await threw, through `finally`
RsProcessFail(r) ==
    /\ page = "resize"
    /\ r \in requests /\ r.kind = "resize"
    /\ requests' = requests \ {r}
    /\ toast' = Toast("error", "Resize failed")
    /\ view' = [view EXCEPT !.loadingHidden = TRUE, !.resultEmptyHidden = FALSE]
    /\ processBtnDisabled' = FALSE
    /\ UNCHANGED <<page, histVars, sessionVars, resetBtnDisabled, downloadBtnDisabled,
                   lastDownload, dimsPending, readers, countVars, cropVars,
                   originalWidth, originalHeight, bg, rs, up>>

\* resultImage.onload
RsResultLoad ==
    /\ page = "resize"
    /\ view.resultImg = "loading"
    /\ view' = [view EXCEPT !.resultImg = "loaded", !.loadingHidden = TRUE]
    /\ downloadBtnDisabled' = FALSE
    /\ UNCHANGED <<page, histVars, sessionVars, resetBtnDisabled, processBtnDisabled, toast,
                   lastDownload, asyncVars, countVars, cropVars, originalWidth,
                   originalHeight, bg, rs, up>>

\* the result image fails to load: resultImage has no error handler
RsResultError ==
    /\ page = "resize"
    /\ view.resultImg = "loading"
    /\ view' = [view EXCEPT !.resultImg = "broken"]
    /\ UNCHANGED <<page, histVars, sessionVars, buttonVars, toast, lastDownload, asyncVars,
                   countVars, cropVars, originalWidth, originalHeight, bg, rs, up>>

\* the user edits the width or the height input: the debounce is armed
RsType(name, value) ==
    /\ page = "resize"
    /\ name \in {"width", "height"}
    /\ rs' = [rs EXCEPT ![name] = value, !.timer = name]
    /\ nSteps' = nSteps + 1
    /\ UNCHANGED <<page, histVars, sessionVars, buttonVars, toast, lastDownload, asyncVars,
                   nSelects, nReq, cropVars, originalWidth, originalHeight, view, bg,
                   up>>

\* `Math.round(parseInt(value) * b / a)` as the other input then holds it
RsLinked(f, a, b) ==
    IF f.t = "int" THEN FieldInt(MathRound(Norm(f.v * b, a))) ELSE EmptyField

\* the debounced `input` handler of the width or the height input
RsTypeTimer ==
    /\ page = "resize"
    /\ rs.timer # "none"
    /\ rs' = IF rs.timer = "width"
             THEN IF rs.aspectLocked /\ originalWidth > 0
                  THEN [rs EXCEPT !.timer = "none",
                           !.height = RsLinked(rs.width, originalWidth, originalHeight)]
                  ELSE [rs EXCEPT !.timer = "none"]
             ELSE IF rs.aspectLocked /\ originalHeight > 0
                  THEN [rs EXCEPT !.timer = "none",
                           !.width = RsLinked(rs.height, originalHeight, originalWidth)]
                  ELSE [rs EXCEPT !.timer = "none"]
    /\ UNCHANGED <<page, histVars, sessionVars, buttonVars, toast, lastDownload, asyncVars,
                   countVars, cropVars, originalWidth, originalHeight, view, bg, up>>

\* the aspect toggle, a mode button, a preset button, the format select or
\* the quality slider
RsConfig(name, value) ==
    /\ page = "resize"
    /\ \/ name = "aspect" /\ rs' = [rs EXCEPT !.aspectLocked = ~@]
       \/ name = "mode" /\ rs' = [rs EXCEPT !.resizeMode = value]
       \/ name = "preset" /\ rs' = [rs EXCEPT !.width = FieldInt(value[1]),
                                              !.height = FieldInt(value[2])]
       \/ name = "format" /\ rs' = [rs EXCEPT !.format = value]
       \/ name = "quality" /\ rs' = [rs EXCEPT !.quality = value]
    /\ nSteps' = nSteps + 1
    /\ UNCHANGED <<page, histVars, sessionVars, buttonVars, toast, lastDownload, asyncVars,
                   nSelects, nReq, cropVars, originalWidth, originalHeight, view, bg,
                   up>>

\* download
RsDownload ==
    /\ page = "resize"
    /\ ~downloadBtnDisabled
    /\ IF ~HasResult(processedFilename)
       THEN /\ toast' = Toast("warning", "No resized image to download")
            /\ UNCHANGED lastDownload
       ELSE /\ lastDownload' = processedFilename
            /\ toast' = Toast("success", "Download started!")
    /\ nSteps' = nSteps + 1
    /\ UNCHANGED <<page, histVars, sessionVars, buttonVars, asyncVars, nSelects, nReq, cropVars,
                   toolVars>>

\* reset
RsReset ==
    /\ page = "resize"
    /\ ~resetBtnDisabled
    /\ currentFile' = NoFile
    /\ uploadedFilename' = 0
    /\ processedFilename' = 0
    /\ originalWidth' = 0
    /\ originalHeight' = 0
    /\ imgSrc' = NoSrc
    /\ view' = [view EXCEPT !.resultImg = "none", !.resultAsset = 0,
                            !.resultEmptyHidden = FALSE]
    /\ rs' = [DefaultRs EXCEPT !.timer = rs.timer]
    /\ resetBtnDisabled' = TRUE
    /\ processBtnDisabled' = TRUE
    /\ downloadBtnDisabled' = TRUE
    /\ requests' = MarkStale(requests)
    /\ nSteps' = nSteps + 1
    /\ UNCHANGED <<page, histVars, toast, lastDownload, dimsPending, readers, nSelects, nReq, cropRest,
                   bg, up>>

(***************************************************************************)
(* upscale.js (in src/frontend/assets/js/utils.js, after the utilities).   *)
(* imgSrc stands for uploadedImage.src on this page.                       *)
(***************************************************************************)
\* handleFileSelect up to `await getImageDimensions(file)`
UpHandleFileSelect(file) ==
    /\ page = "upscale"
    /\ IF ~validateFile(file)
       THEN /\ toast' = Toast("error", validateFileToast(file))
            /\ UNCHANGED <<currentFile, dimsPending, nSelects>>
       ELSE /\ currentFile' = file
            /\ dimsPending' = dimsPending \cup {[id |-> nSelects + 1, file |-> file]}
            /\ nSelects' = nSelects + 1
            /\ UNCHANGED toast
    /\ UNCHANGED <<page, histVars, uploadedFilename, processedFilename, buttonVars, lastDownload,
                   readers, requests, nReq, nSteps, cropVars, toolVars>>

\* a scale factor takes a w x h image past the limit
TooLarge(w, h, s) == w * s > maxDimension \/ h * s > maxDimension

\* scale cards that are disabled and enabled but never move the selection
UpCardsKeepSelection(u, w, h) ==
    [u EXCEPT !.off = (u.off \ {4, 8}) \cup {c \in {4, 8} : TooLarge(w, h, c)}]

\* handleFileSelect: the scale cards for a w x h image, from cards u
UpCards(u, w, h) ==
    LET off8 == IF TooLarge(w, h, 8) THEN u.off \cup {8} ELSE u.off \ {8}
        sel8 == IF TooLarge(w, h, 8) /\ u.selectedScale = 8 THEN 4
                ELSE u.selectedScale
        off4 == IF TooLarge(w, h, 4) THEN off8 \cup {4} ELSE off8 \ {4}
        sel4 == IF TooLarge(w, h, 4) /\ sel8 = 4 THEN 2 ELSE sel8
    IN  [u EXCEPT !.off = off4, !.selectedScale = sel4]

\* handleFileSelect from the dimensions to `await uploadFile(file)`
UpDimsDone(p) ==
    /\ page = "upscale"
    /\ p \in dimsPending
    /\ dimsPending' = dimsPending \ {p}
    /\ originalWidth' = FileWidth(p.file)
    /\ originalHeight' = FileHeight(p.file)
    /\ up' = UpCards(up, FileWidth(p.file), FileHeight(p.file))
    /\ readers' = readers \cup {p}
    /\ toast' = Toast("info", "Uploading image...")
    /\ nReq' = nReq + 1
    /\ requests' = requests \cup
                     {Request(nReq + 1, "upload", p.file, 0, NoRect, NoOpt)}
    /\ prevScale' = up.selectedScale
    /\ UNCHANGED <<page, lastCrop, assetSize, sessionVars, buttonVars, lastDownload, nSelects, nSteps,
                   cropVars, view, bg, rs>>

\* reader.onload: show the original
UpReaderLoad(p) ==
    /\ page = "upscale"
    /\ p \in readers
    /\ readers' = readers \ {p}
    /\ imgSrc' = FileSrc(p.file)
    /\ UNCHANGED <<page, histVars, sessionVars, buttonVars, toast, lastDownload, dimsPending,
                   requests, countVars, cropRest, toolVars>>

\* handleFileSelect after `await uploadFile(file)` resolved
UpUploadDone(r) ==
    /\ page = "upscale"
    /\ r \in requests /\ r.kind = "upload"
    /\ requests' = requests \ {r}
    /\ uploadedFilename' = r.id
    /\ resetBtnDisabled' = FALSE
    /\ processBtnDisabled' = FALSE
    /\ toast' = Toast("success", "Image loaded successfully!")
    /\ assetSize' = assetSize @@ (r.id :> <<FileWidth(r.file), FileHeight(r.file)>>)
    /\ UNCHANGED <<page, lastCrop, prevScale, currentFile, processedFilename, downloadBtnDisabled,
                   lastDownload, dimsPending, readers, countVars, cropVars, toolVars>>

\* handleFileSelect after `await uploadFile(file)` threw
UpUploadFail(r) ==
    /\ page = "upscale"
    /\ r \in requests /\ r.kind = "upload"
    /\ requests' = requests \ {r}
    /\ toast' = Toast("error", "Upload failed")
    /\ UNCHANGED <<page, histVars, sessionVars, buttonVars, lastDownload, dimsPending, readers,
                   countVars, cropVars, toolVars>>

\* click on a scale card
UpCardClick(s) ==
    /\ page = "upscale"
    /\ s \in {2, 4, 8}
    /\ up' = IF s \in up.off THEN up ELSE [up EXCEPT !.selectedScale = s]
    /\ nSteps' = nSteps + 1
    /\ UNCHANGED <<page, histVars, sessionVars, buttonVars, toast, lastDownload, asyncVars,
                   nSelects, nReq, cropVars, originalWidth, originalHeight, view, bg,
                   rs>>

\* processUpscale up to `await upscaleImage(uploadedFilename, selectedScale)`
UpProcess ==
    /\ page = "upscale"
    /\ ~processBtnDisabled
    /\ IF uploadedFilename = 0
       THEN /\ toast' = Toast("warning", "Please upload an image first")
            /\ UNCHANGED <<view, processBtnDisabled, requests, nReq>>
       ELSE IF TooLarge(originalWidth, originalHeight, up.selectedScale)
       THEN /\ toast' = Toast("warning", "Resulting image would be too large")
            /\ UNCHANGED <<view, processBtnDisabled, requests, nReq>>
       ELSE /\ view' = [view EXCEPT !.comparisonHidden = FALSE,
                                    !.loadingHidden = FALSE]
            /\ processBtnDisabled' = TRUE
            /\ toast' = Toast("info", "Upscaling image...")
            /\ nReq' = nReq + 1
            /\ requests' = requests \cup
                 {Request(nReq + 1, "upscale", NoFile, uploadedFilename,
                          Rect(up.selectedScale, 0, originalWidth * up.selectedScale,
                               originalHeight * up.selectedScale), NoOpt)}
    /\ UNCHANGED <<page, histVars, sessionVars, resetBtnDisabled, downloadBtnDisabled,
                   lastDownload, dimsPending, readers, nSelects, nSteps, cropVars,
                   originalWidth, originalHeight, bg, rs, up>>

\* processUpscale after the await resolved, through `finally`
UpProcessDone(r) ==
    /\ page = "upscale"
    /\ r \in requests /\ r.kind = "upscale"
    /\ requests' = requests \ {r}
    /\ processedFilename' = r.id
    /\ up' = [up EXCEPT !.temps = @ \cup {r.id}]
    /\ processBtnDisabled' = FALSE
    /\ UNCHANGED <<page, histVars, currentFile, uploadedFilename, resetBtnDisabled,
                   downloadBtnDisabled, toast, lastDownload, dimsPending, readers,
                   countVars, cropVars, originalWidth, originalHeight, view, bg, rs>>

\* processUpscale after the await threw, through `finally`
UpProcessFail(r) ==
    /\ page = "upscale"
    /\ r \in requests /\ r.kind = "upscale"
    /\ requests' = requests \ {r}
    /\ toast' = Toast("error", "Upscale failed")
    /\ view' = [view EXCEPT !.loadingHidden = TRUE, !.comparisonHidden = TRUE]
    /\ processBtnDisabled' = FALSE
    /\ UNCHANGED <<page, histVars, sessionVars, resetBtnDisabled, downloadBtnDisabled,
                   lastDownload, dimsPending, readers, countVars, cropVars,
                   originalWidth, originalHeight, bg, rs, up>>

\* tempImg.onload of the preload of asset a
UpResultLoad(a) ==
    /\ page = "upscale"
    /\ a \in up.temps
    /\ up' = [up EXCEPT !.temps = @ \ {a}]
    /\ view' = [view EXCEPT !.afterAsset = a, !.loadingHidden = TRUE]
    /\ downloadBtnDisabled' = FALSE
    /\ toast' = Toast("success", "Image upscaled successfully!")
    /\ UNCHANGED <<page, histVars, sessionVars, resetBtnDisabled, processBtnDisabled,
                   lastDownload, asyncVars, countVars, cropVars, originalWidth,
                   originalHeight, bg, rs>>

\* tempImg.onerror of the preload of asset a
UpResultError(a) ==
    /\ page = "upscale"
    /\ a \in up.temps
    /\ up' = [up EXCEPT !.temps = @ \ {a}]
    /\ view' = [view EXCEPT !.loadingHidden = TRUE]
    /\ toast' = Toast("error", "Failed to load upscaled image")
    /\ UNCHANGED <<page, histVars, sessionVars, buttonVars, lastDownload, asyncVars, countVars,
                   cropVars, originalWidth, originalHeight, bg, rs>>

\* download
UpDownload ==
    /\ page = "upscale"
    /\ ~downloadBtnDisabled
    /\ IF ~HasResult(processedFilename)
       THEN /\ toast' = Toast("warning", "No upscaled image to download")
            /\ UNCHANGED lastDownload
       ELSE /\ lastDownload' = processedFilename
            /\ toast' = Toast("success", "Download started!")
    /\ nSteps' = nSteps + 1
    /\ UNCHANGED <<page, histVars, sessionVars, buttonVars, asyncVars, nSelects, nReq, cropVars,
                   toolVars>>

\* reset
UpReset ==
    /\ page = "upscale"
    /\ ~resetBtnDisabled
    /\ currentFile' = NoFile
    /\ uploadedFilename' = 0
    /\ processedFilename' = 0
    /\ originalWidth' = 0
    /\ originalHeight' = 0
    /\ up' = [up EXCEPT !.selectedScale = 4, !.off = {}]
    /\ imgSrc' = NoSrc
    /\ view' = [view EXCEPT !.comparisonHidden = TRUE, !.afterAsset = 0]
    /\ resetBtnDisabled' = TRUE
    /\ processBtnDisabled' = TRUE
    /\ downloadBtnDisabled' = TRUE
    /\ requests' = MarkStale(requests)
    /\ nSteps' = nSteps + 1
    /\ UNCHANGED <<page, histVars, toast, lastDownload, dimsPending, readers, nSelects, nReq, cropRest,
                   bg, rs>>

(***************************************************************************)
(* upload.js: UploadHandler on the home page.  currentFile stands for the  *)
(* file handed to the onFileSelect callback.                               *)
(***************************************************************************)
\* handleFile
HandleFile(file) ==
    /\ page = "home"
    /\ IF FileType(file) \notin validTypes
       THEN /\ toast' = Toast("error", "invalid-type")
            /\ UNCHANGED currentFile
       ELSE IF FileSize(file) > maxSize
       THEN /\ toast' = Toast("error", "too-large")
            /\ UNCHANGED currentFile
       ELSE /\ currentFile' = file
            /\ UNCHANGED toast
    /\ UNCHANGED <<page, histVars, uploadedFilename, processedFilename, buttonVars, lastDownload,
                   asyncVars, countVars, cropVars, toolVars>>

(***************************************************************************)
(* The four tool pages and the home page: one page is open, the user       *)
(* selects files, edits the configuration, clicks the buttons and resizes  *)
(* the window while dimension reads, previews, uploads, processing calls   *)
(* and image loads complete in any order.                                  *)
(***************************************************************************)
MaxOps == 3
SessionFiles == {"edge.png", "anim.gif", "big.jpg"}
SliderValues == {5}
RsTyped == {FieldInt(0), FieldInt(10001), EmptyField}
RsConfigs == <<[name |-> "aspect", value |-> 0], [name |-> "mode", value |-> "stretch"],
               [name |-> "preset", value |-> <<1920, 1080>>],
               [name |-> "format", value |-> "jpg"], [name |-> "quality", value |-> 50]>>

\* the user's budget: file selections accepted, processing calls issued
\* (every accepted selection issues one upload, at once or when its
\* dimensions are read) and the other clicks and edits, counted in nSteps
Ops == nSteps + nReq + Cardinality(dimsPending)
CanAct == Ops < MaxOps

Next ==
    \/ \E f \in SessionFiles : CanAct /\ CropHandleFileSelect(f)
    \/ \E p \in dimsPending : CropDimsDone(p)
    \/ \E p \in readers : CropReaderLoad(p)
    \/ CropImageLoad
    \/ CropFrame
    \/ \E r \in requests : CropUploadDone(r)
    \/ \E r \in requests : CropUploadFail(r)
    \/ \E a \in {R(1)} : CanAct /\ CropAspectClick(a)
    \/ CanAct /\ CropApply
    \/ \E r \in requests : CropDone(r)
    \/ \E r \in requests : CropFail(r)
    \/ CanAct /\ CropDownload
    \/ CanAct /\ CropReset
    \/ \E f \in SessionFiles : CanAct /\ BgHandleFileSelect(f)
    \/ \E p \in readers : BgReaderLoad(p)
    \/ \E r \in requests : BgUploadDone(r)
    \/ \E r \in requests : BgUploadFail(r)
    \/ CanAct /\ BgProcess
    \/ \E r \in requests : BgProcessDone(r)
    \/ \E r \in requests : BgProcessFail(r)
    \/ BgResultLoad
    \/ BgResultError
    \/ \E n \in {"softness", "feather"}, v \in SliderValues : CanAct /\ BgSlider(n, v)
    \/ \E k \in {"color", "null", "image"} : CanAct /\ BgBackground(k)
    \/ BgBackgroundLoad
    \/ CanAct /\ BgDownload
    \/ CanAct /\ BgReset
    \/ \E f \in SessionFiles : CanAct /\ RsHandleFileSelect(f)
    \/ \E p \in dimsPending : RsDimsDone(p)
    \/ \E p \in readers : RsReaderLoad(p)
    \/ \E r \in requests : RsUploadDone(r)
    \/ \E r \in requests : RsUploadFail(r)
    \/ CanAct /\ RsProcess
    \/ \E r \in requests : RsProcessDone(r)
    \/ \E r \in requests : RsProcessFail(r)
    \/ RsResultLoad
    \/ RsResultError
    \/ \E n \in {"width", "height"}, v \in RsTyped : CanAct /\ RsType(n, v)
    \/ RsTypeTimer
    \/ \E i \in 1..Len(RsConfigs) : CanAct /\ RsConfig(RsConfigs[i].name, RsConfigs[i].value)
    \/ CanAct /\ RsDownload
    \/ CanAct /\ RsReset
    \/ \E f \in SessionFiles : CanAct /\ UpHandleFileSelect(f)
    \/ \E p \in dimsPending : UpDimsDone(p)
    \/ \E p \in readers : UpReaderLoad(p)
    \/ \E r \in requests : UpUploadDone(r)
    \/ \E r \in requests : UpUploadFail(r)
    \/ \E c \in {2, 4, 8} : CanAct /\ UpCardClick(c)
    \/ CanAct /\ UpProcess
    \/ \E r \in requests : UpProcessDone(r)
    \/ \E r \in requests : UpProcessFail(r)
    \/ \E a \in up.temps : UpResultLoad(a)
    \/ \E a \in up.temps : UpResultError(a)
    \/ CanAct /\ UpDownload
    \/ CanAct /\ UpReset
    \/ \E f \in SessionFiles : CanAct /\ HandleFile(f)

Spec == Init /\ [][Next]_vars

(***************************************************************************)
(* The crop tool with its geometry engine: one image is loaded, then every *)
(* gesture, aspect button, typed value and window resize.                  *)
(***************************************************************************)
GeomMaxSteps == 2
GeomFiles == {"icon.png", "photo.jpg"}
Ratios == {Zero, R(1), Norm(16, 9)}
PointerStart == <<100, 100>>
PointerMoves == {<<40, 55>>, <<125, 140>>, <<300, -200>>}
TypedValues == {FieldInt(500), FieldInt(0), EmptyField}

GeomInit == Init /\ page = "crop"

GeomNext ==
    \/ \E f \in GeomFiles : currentFile = NoFile /\ CropHandleFileSelect(f)
    \/ \E p \in dimsPending : CropDimsDone(p)
    \/ \E p \in readers : CropReaderLoad(p)
    \/ CropImageLoad
    \/ CropFrame
    \/ \E a \in Ratios : nSteps < GeomMaxSteps /\ CropAspectClick(a)
    \/ \E n \in {"x", "y", "w", "h"}, v \in TypedValues :
          nSteps < GeomMaxSteps /\ CropType(n, v)
    \/ CropInputChange
    \/ CropInputTimer
    \/ \E t \in Handles \cup {"box"} :
          nSteps < GeomMaxSteps /\ CropMouseDown(t, PointerStart[1], PointerStart[2])
    \/ \E m \in PointerMoves : CropMouseMove(m[1], m[2])
    \/ CropMouseUp
    \/ \E v \in Viewports : nSteps < GeomMaxSteps /\ CropWindowResize(v)
    \/ CropResizeTimer

SpecGeom == GeomInit /\ [][GeomNext]_vars

(***************************************************************************)
(* Properties of the sessions (specification Spec).                        *)
(***************************************************************************)
CropInFlight == {r \in requests : r.kind = "crop"}
ProcessingInFlight == {r \in requests : r.kind \in {"remove-bg", "resize", "upscale"}}

\* C1: in the crop tool at most one /crop request is in flight at any time
\* (a click on apply while a crop is pending issues no second request).
C1_OneCropInFlight == page = "crop" => Cardinality(CropInFlight) <= 1

\* C2: in the background-removal, resize and upscale tools the trigger
\* button is disabled for as long as a processing request is in flight.
C2_TriggerDisabledWhilePending ==
    (page \in {"bg", "resize", "upscale"} /\ ProcessingInFlight # {})
        => processBtnDisabled

\* C3: the response to a request issued before a reset is ignored: the step
\* that consumes it leaves the asset references, the stored dimensions and
\* the buttons alone.
C3_LateResponseIgnored ==
    [][\A r \in requests :
         (r.stale /\ requests' = requests \ {r})
            => UNCHANGED <<uploadedFilename, processedFilename, imageWidth,
                           imageHeight, originalWidth, originalHeight, buttonVars>>]_vars

\* a click on apply would issue a /crop request, naming uploadedFilename
ApplyReady == page = "crop" /\ ~processBtnDisabled /\ uploadedFilename # 0
SourceIsLastCrop ==
    /\ uploadedFilename = lastCrop.filename
    /\ imageWidth = lastCrop.width
    /\ imageHeight = lastCrop.height

FailureToasts == {"Crop failed", "Processing failed", "Resize failed", "Upscale failed"}
\* the step consumes the failure of processing request r: the request is
\* gone, its error is on display and no result was stored
FailureOf(r) ==
    /\ r.kind \in {"crop", "remove-bg", "resize", "upscale"}
    /\ requests' = requests \ {r}
    /\ toast'.type = "error" /\ toast'.msg \in FailureToasts
    /\ processedFilename' = processedFilename
ConfigUnchanged ==
    /\ UNCHANGED <<cropState, aspectRatio, bg, rs, uploadedFilename>>
    /\ up'.selectedScale = up.selectedScale

\* C9 as stated: the failure of a processing request leaves the configuration
\* and the source asset reference as they were and the trigger enabled.
C9_FailureLeavesRetry ==
    [][\A r \in requests :
         FailureOf(r) => (ConfigUnchanged /\ processBtnDisabled' = FALSE)]_vars

\* C9: the failure of a processing request leaves the configuration and the
\* source asset reference as they were, and the trigger enabled, except in
\* the crop tool when the session was reset while the request was pending
\* (the apply control is then left disabled).
C9_FailureLeavesRetryUnlessReset ==
    [][\A r \in requests :
         FailureOf(r) => /\ ConfigUnchanged
                         /\ \/ processBtnDisabled' = FALSE
                            \/ page = "crop" /\ r.stale]_vars

\* a background removal has failed with the softness slider moved
C9_Witness ==
    /\ page = "bg"
    /\ toast = Toast("error", "Processing failed")
    /\ bg.softness = 5
    /\ uploadedFilename # 0
    /\ ~processBtnDisabled

AcceptedTypes == {"image/jpeg", "image/png", "image/webp"}
Rejected(f) == FileType(f) \notin AcceptedTypes \/ FileSize(f) > 10 * 1024 * 1024
\* the step shows the rejection of a file
RejectionShown ==
    /\ toast' # toast
    /\ toast'.type = "error" /\ toast'.msg \in {"invalid-type", "too-large"}

\* C10: a file of another MIME type or of more than 10 MiB never becomes
\* the current file and is never uploaded, and the step that rejects it
\* changes nothing of the session (file, dimensions, asset references,
\* buttons, reads and requests in flight).
C10_RejectedFileChangesNothing ==
    /\ [](/\ currentFile # NoFile => ~Rejected(currentFile)
          /\ \A r \in requests : r.kind = "upload" => ~Rejected(r.file)
          /\ \A p \in dimsPending \cup readers : ~Rejected(p.file))
    /\ [][RejectionShown =>
            UNCHANGED <<sessionVars, imageVars, originalWidth, originalHeight,
                        buttonVars, asyncVars>>]_vars

\* an oversized file was rejected while a session with an uploaded file went on
C10_Witness ==
    /\ toast = Toast("error", "too-large")
    /\ currentFile = "edge.png"
    /\ uploadedFilename # 0
    /\ ~processBtnDisabled

(***************************************************************************)
(* Properties of the crop geometry (specification SpecGeom).               *)
(***************************************************************************)
\* the box a pointer move to m makes of the gesture in progress
DragTo(m) ==
    MoveBox(cropState, startCrop, displayWidth, displayHeight,
            m[1] - startX, m[2] - startY)
ResizeTo(m) ==
    ResizeBox(startCrop, activeHandle, aspectRatio, displayWidth, displayHeight,
              m[1] - startX, m[2] - startY)

\* C5: every step of a drag leaves 0 <= x <= displayWidth - width and
\* 0 <= y <= displayHeight - height.
C5_DragStaysInside ==
    isDragging =>
        \A m \in PointerMoves :
            /\ RLe(Zero, DragTo(m).x)
            /\ RLe(DragTo(m).x, RSub(displayWidth, DragTo(m).width))
            /\ RLe(Zero, DragTo(m).y)
            /\ RLe(DragTo(m).y, RSub(displayHeight, DragTo(m).height))

AtLeastMin(b) == RGe(b.width, R(30)) /\ RGe(b.height, R(30))

\* C6: no step of a drag or of a resize leaves a width or a height below 30.
C6_GestureKeepsMinimum ==
    /\ isDragging => \A m \in PointerMoves : AtLeastMin(DragTo(m))
    /\ isResizing => \A m \in PointerMoves : AtLeastMin(ResizeTo(m))

\* C7: with an image loaded the crop box lies inside the display.
C7_BoxInsideDisplay ==
    (page = "crop" /\ ~containerHidden) =>
        /\ RLe(Zero, cropState.x)
        /\ RLe(Zero, cropState.y)
        /\ RLe(RAdd(cropState.x, cropState.width), displayWidth)
        /\ RLe(RAdd(cropState.y, cropState.height), displayHeight)

\* the stages of the resize a pointer move to m makes
AspectStage(m) ==
    ResizeAspect(ResizeMin(ResizeRaw(startCrop, activeHandle, m[1] - startX,
                                     m[2] - startY),
                           startCrop, activeHandle),
                 startCrop, activeHandle, aspectRatio)
BoundsStage(m) == ResizeBounds(AspectStage(m), displayWidth, displayHeight)
BoundsShrank(m) ==
    \/ RLt(BoundsStage(m).width, AspectStage(m).width)
    \/ RLt(BoundsStage(m).height, AspectStage(m).height)
FloorRaised(m) == ResizeTo(m) # BoundsStage(m)
HasRatio(b, r) == b.width = RMul(b.height, r) /\ b.height # Zero

\* C8 as stated: every step of a resize under a locked ratio r leaves
\* width/height = r unless the bounds clamp shrank the rectangle.
C8_ResizeKeepsRatio ==
    (isResizing /\ aspectRatio # Zero) =>
        \A m \in PointerMoves : HasRatio(ResizeTo(m), aspectRatio) \/ BoundsShrank(m)

\* C8: every step of a resize from a corner handle under a locked ratio r
\* leaves width/height = r unless the bounds clamp shrank the rectangle or
\* the final minimum raised a side to 30.
C8_CornerResizeKeepsRatio ==
    (isResizing /\ aspectRatio # Zero /\ activeHandle \in CornerHandles) =>
        \A m \in PointerMoves :
            HasRatio(ResizeTo(m), aspectRatio) \/ BoundsShrank(m) \/ FloorRaised(m)

\* a corner resize under a locked ratio has reshaped the box to that ratio
C8_Witness ==
    /\ isResizing /\ aspectRatio # Zero /\ activeHandle \in CornerHandles
    /\ cropState # startCrop
    /\ \E m \in PointerMoves :
          /\ cropState = ResizeTo(m)
          /\ ~BoundsShrank(m) /\ ~FloorRaised(m)
          /\ HasRatio(cropState, aspectRatio)


(***************************************************************************)
(* Reset (specification Spec).                                             *)
(***************************************************************************)
ResetStep == CropReset \/ BgReset \/ RsReset \/ UpReset

\* the Empty state of the open page's session
EmptySession ==
    /\ currentFile = NoFile
    /\ uploadedFilename = 0
    /\ processedFilename = 0
    /\ resetBtnDisabled /\ processBtnDisabled /\ downloadBtnDisabled
    /\ imageWidth = 0 /\ imageHeight = 0
    /\ originalWidth = 0 /\ originalHeight = 0
    /\ page = "crop" =>
          /\ cropState = [x |-> <<0, 1>>, y |-> <<0, 1>>, width |-> <<0, 1>>,
                          height |-> <<0, 1>>]
          /\ scale = <<1, 1>>
          /\ aspectRatio = <<0, 1>>
    /\ page = "upscale" => (up.selectedScale = 4 /\ up.off = {})
    /\ page = "resize" => (rs.resizeMode = "fit" /\ rs.aspectLocked)
    /\ page = "bg" =>
          (bg.softness = 0 /\ bg.feather = 0 /\ bg.customBackground = "null")

\* C11: from any state a reset leaves the session Empty: no source or result
\* asset, dimensions zero, the page's configuration at its defaults and the
\* reset, process and download buttons disabled.
C11_ResetReturnsToEmpty == [][ResetStep => EmptySession']_vars

\* a reset has just emptied a session whose configuration had been changed
C11_Witness ==
    /\ page \in {"resize", "bg", "upscale", "crop"}
    /\ nSteps >= 2 /\ nReq >= 1
    /\ EmptySession
    /\ requests = {} /\ dimsPending = {}

(***************************************************************************)
(* The result image (specification Spec).                                  *)
(***************************************************************************)
\* the step in which the image of result asset a fails to load
ResultLoadFails(a) ==
    \/ /\ page \in {"bg", "resize"}
       /\ view.resultImg = "loading" /\ view'.resultImg = "broken"
       /\ a = view.resultAsset
    \/ /\ page = "upscale"
       /\ a \in up.temps /\ up'.temps = up.temps \ {a}
       /\ view'.afterAsset # a

\* C12: when the image of a result fails to load, the loading indicator is
\* cleared, an error is on display, that result is not the session's result
\* asset and the download control is as it was.
C12_BrokenResultIsFailure ==
    [][\A a \in 1..nReq :
         ResultLoadFails(a) => /\ view'.loadingHidden
                               /\ toast'.type = "error"
                               /\ processedFilename' # a
                               /\ downloadBtnDisabled' = downloadBtnDisabled]_vars

(***************************************************************************)
(* The upscale tool with images on both sides of the size limit: files are *)
(* selected, scale cards clicked and the buttons used while dimension      *)
(* reads, previews, uploads, /upscale calls and preloads complete in any   *)
(* order.                                                                  *)
(***************************************************************************)
UpMaxOps == 4
UpFiles == {"icon.png", "poster.png", "huge.png"}
UpCanAct == Ops < UpMaxOps
\* at most half of the budget goes to file selections
UpCanSelect == UpCanAct /\ 2 * (nSelects + 1) <= UpMaxOps

UpInit == Init /\ page = "upscale"

UpNext ==
    \/ \E f \in UpFiles : UpCanSelect /\ UpHandleFileSelect(f)
    \/ \E p \in dimsPending : UpDimsDone(p)
    \/ \E p \in readers : UpReaderLoad(p)
    \/ \E r \in requests : UpUploadDone(r)
    \/ \E r \in requests : UpUploadFail(r)
    \/ \E c \in {2, 4, 8} : UpCanAct /\ UpCardClick(c)
    \/ UpCanAct /\ UpProcess
    \/ \E r \in requests : UpProcessDone(r)
    \/ \E r \in requests : UpProcessFail(r)
    \/ \E a \in up.temps : UpResultLoad(a)
    \/ \E a \in up.temps : UpResultError(a)
    \/ UpCanAct /\ UpDownload
    \/ UpCanAct /\ UpReset

SpecUp == UpInit /\ [][UpNext]_vars

(***************************************************************************)
(* Properties of the upscale tool (specification SpecUp).                  *)
(***************************************************************************)
\* scale s takes the stored source dimensions past 10000 px
Exceeds(s) == originalWidth * s > 10000 \/ originalHeight * s > 10000
\* the step stores the dimensions read from a newly selected file
DimensionsRead == \E p \in dimsPending : dimsPending' = dimsPending \ {p}

\* C13: when a new file's dimensions arrive, a selected 8x that would exceed
\* 10000 px is disabled and the selection moves to 4x, and a selected 4x
\* (selected before, or just reached from 8x) that would exceed it moves to 2x.
C13_OversizedSelectionDemoted ==
    [][(page = "upscale" /\ DimensionsRead) =>
         /\ (up.selectedScale = 8 /\ Exceeds(8)') => 8 \in up'.off
         /\ (up.selectedScale = 8 /\ Exceeds(8)' /\ ~Exceeds(4)')
               => up'.selectedScale = 4
         /\ (up.selectedScale \in {4, 8} /\ Exceeds(8)' /\ Exceeds(4)')
               => up'.selectedScale = 2
         /\ (up.selectedScale = 4 /\ Exceeds(4)') => up'.selectedScale = 2]_vars

\* a 20000 x 20000 image arrived with 8x selected: 8x and 4x are disabled and
\* the selection is 2x
C13_Witness ==
    /\ page = "upscale"
    /\ prevScale = 8
    /\ originalWidth = 20000 /\ originalHeight = 20000
    /\ up.selectedScale = 2
    /\ {4, 8} \subseteq up.off

\* C14: when a new file's dimensions arrive, each of the 2x, 4x and 8x
\* options is disabled if its projected output exceeds 10000 px and enabled
\* if it does not.
C14_OptionsMatchLimit ==
    [][(page = "upscale" /\ DimensionsRead) =>
         \A s \in {2, 4, 8} : (s \in up'.off) <=> Exceeds(s)']_vars

\* C15: every /upscale request in flight names an asset whose width and
\* height times the requested scale are at most 10000 px.
C15_NoOversizedRequest ==
    \A r \in requests :
        r.kind = "upscale" =>
            /\ assetSize[r.filename][1] * r.rect.x <= 10000
            /\ assetSize[r.filename][2] * r.rect.x <= 10000

\* the step is a click on download with no result asset in the session
DownloadWithoutResult ==
    /\ BgDownload \/ RsDownload \/ UpDownload
    /\ processedFilename = 0

\* C17: a download triggered with no result asset starts no download and
\* changes nothing of the session; it shows a warning.
C17_DownloadNeedsResult ==
    [][DownloadWithoutResult =>
         /\ toast'.type = "warning"
         /\ UNCHANGED <<page, lastDownload, sessionVars, buttonVars, asyncVars,
                        cropVars, toolVars>>]_vars

\* download was clicked in a session with no result asset
C17_Witness ==
    /\ page = "upscale"
    /\ toast = Toast("warning", "No upscaled image to download")
    /\ processedFilename = 0
    /\ ~downloadBtnDisabled
    /\ lastDownload = 0

(***************************************************************************)
(* Further properties of the sessions (specification Spec).                *)
(***************************************************************************)
\* a typed dimension processResize must refuse: empty or not a number, less
\* than 1, or more than 10000
Refused(f) == f.t # "int" \/ f.v < 1 \/ f.v > 10000
\* the step is a click on resize with a refused width or height
RefusedResize == RsProcess /\ (Refused(rs.width) \/ Refused(rs.height))

\* C16: a click on resize with a refused width or height issues no request
\* and changes nothing of the session, and every /resize request in flight
\* carries a width and a height in 1..10000.
C16_ResizeDimensionsChecked ==
    /\ [](\A r \in requests :
            r.kind = "resize" => /\ r.rect.width \in 1..10000
                                 /\ r.rect.height \in 1..10000)
    /\ [][RefusedResize =>
            UNCHANGED <<sessionVars, buttonVars, asyncVars, lastDownload,
                        originalWidth, originalHeight, view, rs>>]_vars

\* a width over the limit was typed and the click on resize was refused
C16_Witness ==
    /\ page = "resize"
    /\ toast = Toast("warning", "Maximum dimension is 10000px")
    /\ rs.width = FieldInt(10001)
    /\ uploadedFilename # 0
    /\ requests = {}
    /\ ~processBtnDisabled

\* C18, for the first file of a session: once its upload has failed the
\* session is as it was before the selection, with no current file, no
\* stored dimensions, no image on display and no source asset.
C18_FailedUploadReverts ==
    (toast = Toast("error", "Upload failed") /\ nSelects = 1 /\ nReq = 1 /\ nSteps = 0)
        => /\ currentFile = NoFile
           /\ imageWidth = 0 /\ imageHeight = 0
           /\ originalWidth = 0 /\ originalHeight = 0
           /\ imgSrc = NoSrc
           /\ uploadedFilename = 0

\* C19: once a processing call has succeeded, the next processing request of
\* the session names the latest result asset.
C19_RequestNamesLatestResult ==
    [][\A r \in requests' \ requests :
         (r.kind \in {"remove-bg", "resize", "upscale"} /\ processedFilename # 0)
            => r.filename = processedFilename]_vars

\* the step runs a handler that reads scale
ReadsScale ==
    \/ CropApply /\ uploadedFilename # 0
    \/ \E a \in Ratios : CropAspectClick(a) /\ RGt(cropState.width, Zero)
    \/ CropInputChange
    \/ CropInputTimer
    \/ \E m \in PointerMoves : CropMouseMove(m[1], m[2]) /\ ~Idle
ScaleIsCurrent ==
    RectWidth # Zero => scale = RDiv(R(imageWidth), RectWidth)

\* C20: whenever a handler of the crop tool reads scale with an image
\* loaded, scale is the stored source width over the current display width.
C20_ScaleReadIsCurrent == [][(ReadsScale /\ ImageReady) => ScaleIsCurrent]_vars

(***************************************************************************)
(* Properties of the coordinate conversions and of manual input.           *)
(***************************************************************************)
\* the display value that comes back for p from the inputs: updateCropBox
\* writes it in real pixels, handleManualInput reads it
RoundTrip(p, dflt) == ToDisplay(FieldInt(ToSource(p, scale)), dflt, scale)

\* C21: for the display-space coordinates of the crop box and the scale in
\* force (scale > 0), converting to source space and back returns the
\* coordinate.
C21_RoundTripReturnsValue ==
    (page = "crop" /\ ~containerHidden /\ RGt(scale, Zero)) =>
        /\ RoundTrip(cropState.x, 0) = cropState.x
        /\ RoundTrip(cropState.y, 0) = cropState.y
        /\ RoundTrip(cropState.width, 100) = cropState.width
        /\ RoundTrip(cropState.height, 100) = cropState.height

(***************************************************************************)
(* The crop tool in a wide window, driven from its four inputs and its     *)
(* aspect buttons: one image is loaded, then values are typed.             *)
(***************************************************************************)
InputMaxSteps == 4
WideViewport == 800
InputFiles == {"wall.jpg", "icon.png"}
InputRatios == {Zero, Norm(16, 9)}
InputValues == {FieldInt(10), FieldInt(150), FieldInt(200), FieldInt(5000)}

InputInit == InitAt(WideViewport) /\ page = "crop"

InputNext ==
    \/ \E f \in InputFiles : currentFile = NoFile /\ CropHandleFileSelect(f)
    \/ \E p \in dimsPending : CropDimsDone(p)
    \/ \E p \in readers : CropReaderLoad(p)
    \/ CropImageLoad
    \/ CropFrame
    \/ \E a \in InputRatios : nSteps < InputMaxSteps /\ ~containerHidden /\ CropAspectClick(a)
    \/ \E n \in {"x", "y", "w", "h"}, v \in InputValues :
          nSteps < InputMaxSteps /\ ~containerHidden /\ CropType(n, v)
    \/ CropInputChange
    \/ CropInputTimer

SpecInput == InputInit /\ [][InputNext]_vars

\* a run of handleManualInput, from the change event or from the debounce
ManualStep == CropInputChange \/ CropInputTimer
\* the four inputs hold integers
TypedInts == \A n \in {"x", "y", "w", "h"} : fields[n].t = "int"
\* the typed values divided by the scale, with no clamp
Typed(n) == RDiv(R(fields[n].v), scale)
TypedInBounds ==
    /\ RLe(Zero, Typed("x")) /\ RLe(Typed("x"), RSub(displayWidth, R(30)))
    /\ RLe(Zero, Typed("y")) /\ RLe(Typed("y"), RSub(displayHeight, R(30)))
    /\ RLe(R(30), Typed("w")) /\ RLe(Typed("w"), RSub(displayWidth, Typed("x")))
    /\ RLe(R(30), Typed("h")) /\ RLe(Typed("h"), RSub(displayHeight, Typed("y")))

\* C22: with no aspect lock, manual input of source-pixel values whose
\* display-space images satisfy the bounds yields exactly
\* { X / scale, Y / scale, W / scale, H / scale }.
C22_ManualInputExact ==
    [][(ManualStep /\ aspectRatio = Zero /\ RGt(scale, Zero) /\ TypedInts
          /\ TypedInBounds)
       => cropState' = Box(Typed("x"), Typed("y"), Typed("w"), Typed("h"))]_vars

\* x = 10, y = 10, w = 200, h = 150 typed at scale 2 on an 800 x 600 display
C22_Witness ==
    /\ displayWidth = R(800) /\ displayHeight = R(600) /\ scale = R(2)
    /\ aspectRatio = Zero
    /\ ~changePending
    /\ fields = [x |-> FieldInt(10), y |-> FieldInt(10),
                 w |-> FieldInt(200), h |-> FieldInt(150)]
    /\ cropState = Box(R(5), R(5), R(100), R(75))

\* the bounds handleManualInput is to leave the crop box in
ManualBounds ==
    /\ RLe(Zero, cropState.x) /\ RLe(cropState.x, RSub(displayWidth, R(30)))
    /\ RLe(Zero, cropState.y) /\ RLe(cropState.y, RSub(displayHeight, R(30)))
    /\ RLe(R(30), cropState.width)
    /\ RLe(cropState.width, RSub(displayWidth, cropState.x))
    /\ RLe(R(30), cropState.height)
    /\ RLe(cropState.height, RSub(displayHeight, cropState.y))

\* C23: after handleManualInput with no aspect lock, whatever was typed,
\* 0 <= x <= displayWidth - 30, 0 <= y <= displayHeight - 30,
\* 30 <= width <= displayWidth - x and 30 <= height <= displayHeight - y,
\* x and y being the resulting position.
C23_ManualInputClamped ==
    [][(ManualStep /\ aspectRatio = Zero /\ ~containerHidden) => ManualBounds']_vars

\* the operations outside a gesture that set the crop box: initCropBox in the
\* image's onload frame, constrainCropBox on an aspect click, manual input
\* under an aspect ratio
NonGestureSet ==
    \/ CropFrame
    \/ \E a \in Ratios : CropAspectClick(a) /\ RGt(cropState.width, Zero)
    \/ ManualStep /\ aspectRatio # Zero

\* C24: initCropBox, an aspect change and manual input under an aspect ratio
\* each leave width >= 30 and height >= 30.
C24_NonGestureKeepsMinimum ==
    [][(NonGestureSet /\ RGt(displayWidth', Zero)) => AtLeastMin(cropState')]_vars

(***************************************************************************)
(* Properties of the pointer gestures (specification SpecGeom).            *)
(***************************************************************************)
\* C25: under any sequence of pointer-down, move and up events isDragging
\* and isResizing are never both true, and after every pointer-up both are
\* false and activeHandle is null.
C25_GestureStateMachine ==
    /\ [](~(isDragging /\ isResizing))
    /\ [][CropMouseUp => (~isDragging' /\ ~isResizing' /\ activeHandle' = "null")]_vars

\* the box handleMouseMove makes of the box cs for a pointer at m
MoveOf(cs, m) ==
    IF isDragging
    THEN MoveBox(cs, startCrop, displayWidth, displayHeight,
                 m[1] - startX, m[2] - startY)
    ELSE ResizeTo(m)
\* a move after any other move gives what the move alone gives
MovesForgetMoves ==
    (isDragging \/ isResizing) =>
        \A m1, m2 \in PointerMoves :
            MoveOf(MoveOf(cropState, m1), m2) = MoveOf(cropState, m2)
\* no step taken during a gesture assigns startCrop
SnapshotKept == [][(isDragging \/ isResizing) => startCrop' = startCrop]_vars

\* C26: within a gesture the geometry after a move depends only on the
\* gesture-start snapshot and on that move's delta (intermediate moves leave
\* no trace), and startCrop is not modified between pointer-down and
\* pointer-up.
C26_MoveDependsOnSnapshot == []MovesForgetMoves /\ SnapshotKept

\* a run of handleMouseMove
MoveStep == \E m \in PointerMoves : CropMouseMove(m[1], m[2])

\* C27: a drag step changes only the position (width and height are
\* unchanged), and a pointer move while Idle changes nothing in cropState.
C27_DragMovesOnly ==
    /\ [][(MoveStep /\ isDragging) =>
            /\ cropState'.width = cropState.width
            /\ cropState'.height = cropState.height]_vars
    /\ [][(MoveStep /\ Idle) => cropState' = cropState]_vars

\* a drag has moved the box
C27_Witness ==
    /\ isDragging /\ ~isResizing
    /\ ~containerHidden
    /\ \E m \in PointerMoves : cropState = DragTo(m)
    /\ <<cropState.x, cropState.y>> # <<startCrop.x, startCrop.y>>
    /\ cropState.width = startCrop.width /\ cropState.height = startCrop.height

\* the four edges of a box
Left(b) == b.x
Right(b) == RAdd(b.x, b.width)
Top(b) == b.y
Bottom(b) == RAdd(b.y, b.height)
\* the edges a handle is attached to
OnRight(h) == h \in {"tr", "br", "mr"}
OnBottom(h) == h \in {"bl", "br", "bm"}
\* the gesture started from a box inside the display and of minimum size
StartIsSound ==
    /\ RLe(Zero, startCrop.x) /\ RLe(Zero, startCrop.y)
    /\ RLe(Right(startCrop), displayWidth)
    /\ RLe(Bottom(startCrop), displayHeight)
    /\ AtLeastMin(startCrop)
\* a pointer move would run resizeCropBox
ResizeStepAhead == isResizing /\ ~isDragging
\* the edges of b that the handle h does not hold are where startCrop has them
FreeEdgesKept(b, h) ==
    /\ ~IncludesL(h) => Left(b) = Left(startCrop)
    /\ ~OnRight(h) => Right(b) = Right(startCrop)
    /\ ~IncludesT(h) => Top(b) = Top(startCrop)
    /\ ~OnBottom(h) => Bottom(b) = Bottom(startCrop)

\* C28: a resize step with no aspect lock, from a start geometry inside the
\* bounds and of minimum size, moves no edge that the active handle does not
\* hold: tm/bm leave x and width, ml/mr leave y and height, and the edge
\* opposite a dragged edge stays at its gesture-start position, also when
\* the minimum size is hit.
C28_FreeEdgesStay ==
    (ResizeStepAhead /\ aspectRatio = Zero /\ StartIsSound) =>
        \A m \in PointerMoves : FreeEdgesKept(ResizeTo(m), activeHandle)

\* a resize by a left handle hit the minimum width and the right edge stayed
C28_Witness ==
    /\ ResizeStepAhead /\ aspectRatio = Zero /\ StartIsSound
    /\ IncludesL(activeHandle)
    /\ \E m \in PointerMoves :
          /\ cropState = ResizeTo(m)
          /\ RLt(ResizeRaw(startCrop, activeHandle, m[1] - startX,
                           m[2] - startY).width, R(minSize))
    /\ cropState.width = R(minSize)
    /\ Right(cropState) = Right(startCrop)
    /\ Left(cropState) # Left(startCrop)

\* C29: during a resize by a corner handle (tl, tr, bl, br) under a locked
\* ratio, from a start geometry inside the bounds and of minimum size, the
\* diagonally opposite corner (the two edges the handle does not hold) stays
\* at its gesture-start position.
C29_OppositeCornerStays ==
    (ResizeStepAhead /\ aspectRatio # Zero /\ activeHandle \in CornerHandles
       /\ StartIsSound) =>
        \A m \in PointerMoves : FreeEdgesKept(ResizeTo(m), activeHandle)

\* the clamped box handleManualInput assigns before it re-applies the ratio
Clamped == ManualBox(fields, scale, displayWidth, displayHeight)
\* the clamped box is wider than the ratio
ClampedIsWide == DivGt(Clamped.width, Clamped.height, aspectRatio)

\* C30 as stated: with an aspect ratio r active, manual input always keeps
\* the clamped width and recomputes the height as width / r.
C30_ManualKeepsWidth ==
    [][(ManualStep /\ aspectRatio # Zero) =>
            /\ cropState'.width = Clamped.width
            /\ cropState'.height = RDiv(Clamped.width, aspectRatio)]_vars

\* C30: with an aspect ratio r active, manual input keeps the clamped width
\* and recomputes the height as width / r when the clamped width / height is
\* at most r; when it is greater than r it keeps the clamped height and
\* recomputes the width as height * r.
C30_ManualTieBreak ==
    [][(ManualStep /\ aspectRatio # Zero) =>
            IF ClampedIsWide
            THEN /\ cropState'.height = Clamped.height
                 /\ cropState'.width = RMul(Clamped.height, aspectRatio)
            ELSE /\ cropState'.width = Clamped.width
                 /\ cropState'.height = RDiv(Clamped.width, aspectRatio)]_vars

\* under 16:9 a height of 10 real pixels was typed for wall.jpg: the height
\* is clamped to 30 and the width follows it
C30_Witness ==
    /\ currentFile = "wall.jpg" /\ scale = R(2)
    /\ aspectRatio = Norm(16, 9)
    /\ ~changePending /\ inputPending
    /\ fields = FieldsOf(cropState, scale)
    /\ cropState = Box(R(80), R(60), Norm(160, 3), R(30))

(***************************************************************************)
(* The crop tool's sessions on their own, with a budget that lets a second *)
(* file follow a crop or a reset.                                          *)
(***************************************************************************)
CropMaxOps == 4
CropFiles == {"edge.png"}
CropCanAct == Ops < CropMaxOps
\* a selection takes two of the budget: its upload and what is done with it
CropCanSelect == CropCanAct /\ 2 * (nSelects + 1) <= CropMaxOps

CropInit == Init /\ page = "crop"

CropNext ==
    \/ \E f \in CropFiles : CropCanSelect /\ CropHandleFileSelect(f)
    \/ \E p \in dimsPending : CropDimsDone(p)
    \/ \E p \in readers : CropReaderLoad(p)
    \/ CropImageLoad
    \/ CropFrame
    \/ \E r \in requests : CropUploadDone(r)
    \/ CropCanAct /\ CropApply
    \/ \E r \in requests : CropDone(r)
    \/ CropCanAct /\ CropDownload
    \/ CropCanAct /\ CropReset

SpecCrop == CropInit /\ [][CropNext]_vars

(***************************************************************************)
(* Properties of the inputs, of initCropBox and of the crop request.       *)
(***************************************************************************)
\* the default handleManualInput has for each input
DefaultOf(n) == IF n \in {"x", "y"} THEN 0 ELSE 100
\* the real-pixel value handleManualInput reads from the input n
ValueRead(n) == ParseIntOr(fields[n], DefaultOf(n))

\* C31: handleManualInput replaces a field by its default (0 for x and y,
\* 100 for width and height) exactly when the field is empty or not a
\* number; a well-formed number is used as typed.
C31_DefaultOnlyForMalformed ==
    (changePending \/ inputPending) =>
        \A n \in {"x", "y", "w", "h"} :
            /\ fields[n].t = "int" => ValueRead(n) = fields[n].v
            /\ fields[n].t # "int" => ValueRead(n) = DefaultOf(n)

Eighty(d) == RMul(d, Norm(4, 5))
\* the box is centred in the display and lies inside it
Centred ==
    /\ cropState.x = RDiv(RSub(displayWidth, cropState.width), R(2))
    /\ cropState.y = RDiv(RSub(displayHeight, cropState.height), R(2))
    /\ RLe(Zero, cropState.x) /\ RLe(Zero, cropState.y)
    /\ RLe(RAdd(cropState.x, cropState.width), displayWidth)
    /\ RLe(RAdd(cropState.y, cropState.height), displayHeight)
\* the size initCropBox is to give the box
InitialSize ==
    IF aspectRatio = Zero
    THEN /\ cropState.width = Eighty(displayWidth)
         /\ cropState.height = Eighty(displayHeight)
    ELSE /\ HasRatio(cropState, aspectRatio)
         /\ \/ cropState.width = Eighty(displayWidth)
            \/ cropState.height = Eighty(displayHeight)

Issued == {r \in requests' \ requests : r.kind = "crop"}
\* a rectangle of whole pixels inside the stored image
InsideImage(q) ==
    /\ q.x >= 0 /\ q.y >= 0
    /\ q.width >= 1 /\ q.height >= 1
    /\ q.x + q.width <= imageWidth
    /\ q.y + q.height <= imageHeight

\* C33: every /crop request carries integers with x >= 0, y >= 0,
\* width >= 1, height >= 1, x + width <= imageWidth and
\* y + height <= imageHeight, in every reachable state in which applyCrop
\* issues a request.
C33_CropRequestInsideImage ==
    [][CropApply => \A r \in Issued : InsideImage(r.rect)]_vars

\* a run of download that issues the request
DownloadIssued == CropDownload /\ uploadedFilename # 0

\* C34: in the crop tool a download request names an asset that a
\* successful /crop call returned (the latest one: each success makes its
\* result the asset in hand), never an upload that has not been cropped,
\* also when a new file was uploaded after an earlier crop.
C34_DownloadNamesCropResult ==
    [][DownloadIssued =>
          /\ lastCrop.filename # 0
          /\ lastDownload' = lastCrop.filename]_vars

(***************************************************************************)
(* The sessions under the assumption that every fetch settles: a           *)
(* processing call in flight resolves or rejects.                          *)
(***************************************************************************)
\* the continuation of a processing call runs: its await resolved or threw
ProcessingSettles ==
    \E r \in requests :
        \/ BgProcessDone(r) \/ BgProcessFail(r)
        \/ RsProcessDone(r) \/ RsProcessFail(r)
        \/ UpProcessDone(r) \/ UpProcessFail(r)

SpecLive == Init /\ [][Next]_vars /\ WF_vars(ProcessingSettles)

\* the processing request with the id i is in flight
Processing(i) == \E r \in ProcessingInFlight : r.id = i

\* C35: every processing request issued in the background-removal, resize
\* or upscale tool is followed, once its response or failure has arrived,
\* by the trigger button being enabled again.  (The first request of a
\* session is an upload: processing requests have the ids 2 and up.)
C35_TriggerEnabledAgain ==
    \A i \in 2..MaxOps :
        Processing(i) ~> (~Processing(i) /\ ~processBtnDisabled)

\* a processing call failed and the trigger button is enabled
C35_Witness ==
    /\ page \in {"bg", "resize", "upscale"}
    /\ nReq >= 2
    /\ ProcessingInFlight = {}
    /\ toast \in {Toast("error", "Processing failed"), Toast("error", "Resize failed"),
                  Toast("error", "Upscale failed")}
    /\ uploadedFilename # 0
    /\ ~processBtnDisabled

(***************************************************************************)
(* Properties of the sessions with two selections (SpecUp, SpecCrop).      *)
(***************************************************************************)
UploadsInFlight == {r \in requests : r.kind = "upload"}
SizeOf(f) == <<FileWidth(f), FileHeight(f)>>
\* the upload of the file on display has resolved
DisplayedFileUploaded == \E a \in DOMAIN assetSize : assetSize[a] = SizeOf(currentFile)
\* two files were selected and nothing of their selection is still pending
BothUploadsOver ==
    /\ nSelects = 2 /\ currentFile # NoFile
    /\ dimsPending = {} /\ UploadsInFlight = {}
    /\ DisplayedFileUploaded

\* C36: when two files are selected in succession and their uploads complete
\* in any order, once both have completed the source asset reference is the
\* one returned for the most recently selected file, the file on display.
C36_SourceIsLatestFile ==
    BothUploadsOver =>
        /\ uploadedFilename \in DOMAIN assetSize
        /\ assetSize[uploadedFilename] = SizeOf(currentFile)

\* a click on a scale card that is disabled
DisabledCardClicked == \E s \in up.off : UpCardClick(s)

\* C37: in the upscale tool the selected scale is always an option that is
\* enabled: a click on a disabled card leaves selectedScale unchanged and an
\* upload never leaves the selection on a card it has just disabled.
C37_SelectionIsEnabled ==
    /\ [](page = "upscale" => up.selectedScale \notin up.off)
    /\ [][DisabledCardClicked => up'.selectedScale = up.selectedScale]_vars

\* 8x was selected when a 2000 x 1500 image arrived: 8x is disabled and the
\* selection is the enabled 4x
C37_Witness ==
    /\ page = "upscale"
    /\ prevScale = 8
    /\ originalWidth = 2000 /\ originalHeight = 1500
    /\ 8 \in up.off /\ 4 \notin up.off
    /\ up.selectedScale = 4

(***************************************************************************)
(* Properties of the aspect buttons, of the preview and of the round trip  *)
(* through the inputs (SpecGeom).                                          *)
(***************************************************************************)
\* the box has a positive size and lies inside the display
BoxInBounds ==
    /\ RGt(cropState.width, Zero) /\ RGt(cropState.height, Zero)
    /\ RLe(Zero, cropState.x) /\ RLe(Zero, cropState.y)
    /\ RLe(RAdd(cropState.x, cropState.width), displayWidth)
    /\ RLe(RAdd(cropState.y, cropState.height), displayHeight)

\* C38: selecting a preset ratio r when the crop box satisfies the bounds
\* yields width/height = r, increases neither width nor height and leaves
\* the box inside the display; selecting free leaves the geometry unchanged.
C38_PresetConstrains ==
    [][\A a \in Ratios :
          /\ (a # Zero /\ BoxInBounds /\ CropAspectClick(a)) =>
                /\ HasRatio(cropState', a)
                /\ RLe(cropState'.width, cropState.width)
                /\ RLe(cropState'.height, cropState.height)
                /\ BoxInBounds'
          /\ (a = Zero /\ CropAspectClick(a)) => cropState' = cropState]_vars

\* 16:9 was selected for the 160 x 80 box of photo.jpg: the box is 142.22 x 80
C38_Witness ==
    /\ aspectRatio = Norm(16, 9)
    /\ displayWidth = R(200) /\ displayHeight = R(100)
    /\ cropState = Box(R(20), R(10), Norm(1280, 9), R(80))
    /\ BoxInBounds

\* what updatePreview would draw and applyCrop would send in this state
PreviewNow == PreviewRect(cropState, scale, imageWidth, imageHeight)
CropNow == CropRect(cropState, scale, imageWidth, imageHeight)

\* C39: for the same cropState, scale and stored image dimensions, whenever
\* updatePreview renders a preview the source rectangle it draws is the
\* rectangle applyCrop sends in the /crop request.
C39_PreviewIsCropRect ==
    (page = "crop" /\ PreviewNow # NoRect) => PreviewNow = CropNow

\* the preview of a box that passes the bottom of the image was drawn,
\* clamped to the image
C39_Witness ==
    /\ page = "crop" /\ ImageReady
    /\ preview # NoRect /\ preview = PreviewNow
    /\ preview.height < MathRound(RMul(cropState.height, scale))
    /\ preview = CropNow

\* the inputs show what updateCropBox wrote for the crop box
FieldsJustWritten == fields = FieldsOf(cropState, scale)
\* a box inside the display and of minimum size
ValidGeometry == BoxInBounds /\ AtLeastMin(cropState) /\ RGt(scale, Zero)

\* C40: with no aspect lock, running handleManualInput on the field values
\* that updateCropBox has just written for a valid geometry leaves cropState
\* unchanged.
C40_ManualInputIdempotent ==
    [][(ManualStep /\ aspectRatio = Zero /\ FieldsJustWritten /\ ValidGeometry)
       => cropState' = cropState]_vars

=============================================================================
